---- MODULE Spec2Model ----
(***************************************************************************)
(* Hook-dispatch protocol of go-sql-proxy: a Proxy wraps a database/sql    *)
(* driver and fires pre / main / postAlways hooks around every driver      *)
(* operation.  One action per wrapper method; every action computes the    *)
(* whole method, the deferred postAlways call included, and records the    *)
(* sequence of hook and engine invocations it made together with what it   *)
(* returned to its caller.                                                  *)
(***************************************************************************)
EXTENDS Integers, Sequences, FiniteSets, TLC

\* Largest number of hook sets in one chain (NewProxyContext / WithHooks are variadic).
MaxChain == 2


----------------------------------------------------------------------------
(* Values *)

\* Go's nil error.
NoErr == [e |-> "nil", m |-> 0]
\* The error returned by member m's pre / main / postAlways callback.
PreErr(m) == [e |-> "pre", m |-> m]
MainErr(m) == [e |-> "main", m |-> m]
PostErr(m) == [e |-> "post", m |-> m]
\* An error returned by the wrapped engine.
EngineErr == [e |-> "engine", m |-> 0]
\* driver.ErrSkip, the reserved "not supported, use the generic path" signal.
ErrSkip == [e |-> "ErrSkip", m |-> 0]
\* c.Err() of a context that is done.
CtxErr == [e |-> "context", m |-> 0]
\* errors.New("proxy: driver does not support non-default isolation level") and read-only.
ErrIsolation == [e |-> "isolation", m |-> 0]
ErrReadOnly == [e |-> "readonly", m |-> 0]
\* namedValuesToValues: "sql: driver does not support the use of Named Parameters".
ErrNamed == [e |-> "named", m |-> 0]
\* multipleHooks.do / postDo: errors.New("invalid context type").
ErrInvalidCtx == [e |-> "invalidctx", m |-> 0]
\* Not an error value: the run-time panic of calling a nil callback of member m,
\* which unwinds the method and reaches the caller.
Panic(m) == [e |-> "panic", m |-> m]

\* The per-call context value: Go nil, an opaque value made by member m's pre
\* callback, or the []interface{} a multipleHooks builds.
NilCtx == [k |-> "nil", m |-> 0, l |-> <<>>]
ValCtx(m) == [k |-> "val", m |-> m, l |-> <<>>]
ListCtx(l) == [k |-> "list", m |-> 0, l |-> l]

\* What the callbacks of one hook set do in one call: whether pre returns a
\* context value or nil, and whether pre, main and postAlways return an error.
Behaviour == [ctx : BOOLEAN, pre : BOOLEAN, main : BOOLEAN, post : BOOLEAN]

\* A hook set as a call meets it: the callbacks it leaves nil and what the others do.
HookSet(nils, b) ==
    [ctx |-> b.ctx, pre |-> b.pre, main |-> b.main, post |-> b.post, nils |-> nils]

\* The callback fields of a HooksContext: pre, main and postAlways of each kind of
\* operation, e.g. <<"pre", "Begin">> for PreBegin and <<"main", "Begin">> for Begin.
HookKinds == {"Open", "Ping", "ResetSession", "Close", "Begin", "Exec", "Query",
              "Commit", "Rollback"}
AllCallbacks == {"pre", "main", "post"} \X HookKinds

\* The value of the `hooks` interface: nil, one *HooksContext, or multipleHooks of n
\* members.  own tells the hook sets given to NewProxyContext ("proxy") from those
\* given to WithHooks ("ctx"); nils[m] is the set of callbacks member m leaves nil.
NilHooks == [kind |-> "nil", n |-> 0, own |-> "none", nils |-> <<>>]
SingleHooks == [kind |-> "single", n |-> 1, own |-> "proxy", nils |-> <<{}>>]
MultiHooks(n) == [kind |-> "multi", n |-> n, own |-> "proxy", nils |-> [m \in 1..n |-> {}]]

HooksValues == {NilHooks, SingleHooks} \cup {MultiHooks(n) : n \in 0..MaxChain}

\* One observed invocation: a hook callback of member m (kind pre, main, post)
\* with the per-call context and error it was handed, or an engine operation (kind eng).
HookEv(kind, op, m, ctx, err) == [kind |-> kind, op |-> op, m |-> m, ctx |-> ctx, err |-> err]
EngEv(op) == [kind |-> "eng", op |-> op, m |-> 0, ctx |-> NilCtx, err |-> NoErr]

----------------------------------------------------------------------------
(* Hook sets: HooksContext methods and the multipleHooks composite *)

\* Mutant of preCall: the callback is called without the nil test.
preCallUnguarded(op, m, b) ==
    IF <<"pre", op>> \in b.nils
    THEN [ctx |-> NilCtx, err |-> Panic(m), ev |-> <<>>]
    ELSE [ctx |-> IF b.ctx THEN ValCtx(m) ELSE NilCtx,
          err |-> IF b.pre THEN PreErr(m) ELSE NoErr,
          ev |-> <<HookEv("pre", op, m, NilCtx, NoErr)>>]

\* (*HooksContext).preX: the callback's context value and error, or (nil, nil)
\* if the callback is nil.
preCall(op, m, b) ==
    IF <<"pre", op>> \in b.nils
    THEN [ctx |-> NilCtx, err |-> NoErr, ev |-> <<>>]
    ELSE [ctx |-> IF b.ctx THEN ValCtx(m) ELSE NilCtx,
          err |-> IF b.pre THEN PreErr(m) ELSE NoErr,
          ev |-> <<HookEv("pre", op, m, NilCtx, NoErr)>>]

\* The callback field whose nil test guards the main callback of an operation:
\* (*HooksContext).begin tests h.Open before it calls h.Begin.
MainGuard(op) == IF op = "Begin" THEN <<"main", "Open">> ELSE <<"main", op>>

\* (*HooksContext).x: the main callback, handed the per-call context; nil if the
\* guarded field is nil; calling a nil callback panics.
mainCall(op, m, b, ctx) ==
    IF MainGuard(op) \in b.nils
    THEN [err |-> NoErr, ev |-> <<>>]
    ELSE IF <<"main", op>> \in b.nils
    THEN [err |-> Panic(m), ev |-> <<>>]
    ELSE [err |-> IF b.main THEN MainErr(m) ELSE NoErr,
          ev |-> <<HookEv("main", op, m, ctx, NoErr)>>]

\* (*HooksContext).postX: the postAlways callback, handed the context and the
\* error; nil if the callback is nil.
postCall(op, m, b, ctx, err) ==
    IF <<"post", op>> \in b.nils
    THEN [err |-> NoErr, ev |-> <<>>]
    ELSE [err |-> IF b.post THEN PostErr(m) ELSE NoErr,
          ev |-> <<HookEv("post", op, m, ctx, err)>>]

RECURSIVE preDoLoopStop(_, _, _, _, _, _, _)
\* Mutant of preDoLoop: the members after the first one whose pre fails are skipped.
preDoLoopStop(op, n, beh, i, ctx, err, ev) ==
    IF i > n THEN [ctx |-> ListCtx(ctx), err |-> err, ev |-> ev]
    ELSE IF err # NoErr
    THEN preDoLoopStop(op, n, beh, i + 1, Append(ctx, NilCtx), err, ev)
    ELSE LET r == preCall(op, i, beh[i])
         IN preDoLoopStop(op, n, beh, i + 1, Append(ctx, r.ctx), r.err, ev \o r.ev)

RECURSIVE preDoLoop(_, _, _, _, _, _, _)
\* The loop of multipleHooks.preDo from member i on.
preDoLoop(op, n, beh, i, ctx, err, ev) ==
    IF i > n THEN [ctx |-> ListCtx(ctx), err |-> err, ev |-> ev]
    ELSE LET r == preCall(op, i, beh[i])
         IN preDoLoop(op, n, beh, i + 1, Append(ctx, r.ctx),
                      IF r.err # NoErr /\ err = NoErr THEN r.err ELSE err,
                      ev \o r.ev)

\* multipleHooks.preDo
preDo(op, n, beh) ==
    IF n = 0 THEN [ctx |-> NilCtx, err |-> NoErr, ev |-> <<>>]
    ELSE preDoLoop(op, n, beh, 1, <<>>, NoErr, <<>>)

RECURSIVE doLoopFirstCtx(_, _, _, _, _, _)
\* Mutant of doLoop: every member is handed the first member's context value.
doLoopFirstCtx(op, n, beh, i, sctx, ev) ==
    IF i > n THEN [err |-> NoErr, ev |-> ev]
    ELSE LET r == mainCall(op, i, beh[i], sctx[1])
         IN IF r.err # NoErr THEN [err |-> r.err, ev |-> ev \o r.ev]
            ELSE doLoopFirstCtx(op, n, beh, i + 1, sctx, ev \o r.ev)

RECURSIVE doLoopAll(_, _, _, _, _, _)
\* Mutant of doLoop: the loop goes on after a member's main hook has failed.
doLoopAll(op, n, beh, i, sctx, ev) ==
    IF i > n THEN [err |-> IF \E m \in 1..n : beh[m].main
                           THEN MainErr(CHOOSE m \in 1..n :
                                    beh[m].main /\ \A k \in 1..n : beh[k].main => m <= k)
                           ELSE NoErr,
                   ev |-> ev]
    ELSE LET r == mainCall(op, i, beh[i], sctx[i])
         IN doLoopAll(op, n, beh, i + 1, sctx, ev \o r.ev)

RECURSIVE doLoop(_, _, _, _, _, _)
\* The loop of multipleHooks.do from member i on: stops at the first error.
doLoop(op, n, beh, i, sctx, ev) ==
    IF i > n THEN [err |-> NoErr, ev |-> ev]
    ELSE LET r == mainCall(op, i, beh[i], sctx[i])
         IN IF r.err # NoErr THEN [err |-> r.err, ev |-> ev \o r.ev]
            ELSE doLoop(op, n, beh, i + 1, sctx, ev \o r.ev)

\* Mutant of do: the members are handed the chain's context list itself.
doWholeCtx(op, n, beh, ctx) ==
    IF n = 0 THEN [err |-> NoErr, ev |-> <<>>]
    ELSE IF ctx.k # "list" THEN [err |-> ErrInvalidCtx, ev |-> <<>>]
    ELSE doLoop(op, n, beh, 1, [i \in 1..n |-> ctx], <<>>)

\* multipleHooks.do
do(op, n, beh, ctx) ==
    IF n = 0 THEN [err |-> NoErr, ev |-> <<>>]
    ELSE IF ctx.k # "list" THEN [err |-> ErrInvalidCtx, ev |-> <<>>]
    ELSE doLoop(op, n, beh, 1, ctx.l, <<>>)

RECURSIVE postDoLoopLast(_, _, _, _, _, _, _, _)
\* Mutant of postDoLoop: the error reported is that of the last failing postAlways.
postDoLoopLast(op, n, beh, i, sctx, err, reterr, ev) ==
    IF i < 1 THEN [err |-> reterr, ev |-> ev]
    ELSE LET r == postCall(op, i, beh[i], sctx[i], err)
         IN postDoLoopLast(op, n, beh, i - 1, sctx,
                           IF r.err # NoErr /\ err = NoErr THEN r.err ELSE err,
                           IF r.err # NoErr THEN r.err ELSE reterr,
                           ev \o r.ev)

RECURSIVE postDoLoopForward(_, _, _, _, _, _, _, _)
\* Mutant of postDoLoop: the members are walked in registration order.
postDoLoopForward(op, n, beh, i, sctx, err, reterr, ev) ==
    IF i < 1 THEN [err |-> reterr, ev |-> ev]
    ELSE LET m == n + 1 - i
             r == postCall(op, m, beh[m], sctx[m], err)
         IN postDoLoopForward(op, n, beh, i - 1, sctx,
                              IF r.err # NoErr /\ err = NoErr THEN r.err ELSE err,
                              IF r.err # NoErr /\ reterr = NoErr THEN r.err ELSE reterr,
                              ev \o r.ev)

RECURSIVE postDoLoop(_, _, _, _, _, _, _, _)
\* The loop of multipleHooks.postDo from member i down to 1.
postDoLoop(op, n, beh, i, sctx, err, reterr, ev) ==
    IF i < 1 THEN [err |-> reterr, ev |-> ev]
    ELSE LET r == postCall(op, i, beh[i], sctx[i], err)
         IN postDoLoop(op, n, beh, i - 1, sctx,
                       IF r.err # NoErr /\ err = NoErr THEN r.err ELSE err,
                       IF r.err # NoErr /\ reterr = NoErr THEN r.err ELSE reterr,
                       ev \o r.ev)

\* multipleHooks.postDo
postDo(op, n, beh, ctx, err) ==
    IF n = 0 THEN [err |-> NoErr, ev |-> <<>>]
    ELSE IF ctx.k # "list" THEN [err |-> ErrInvalidCtx, ev |-> <<>>]
    ELSE postDoLoop(op, n, beh, n, ctx.l, err, NoErr, <<>>)

\* hooks.preX dispatched on the dynamic type of the hooks value.
hooksPre(h, op, beh) ==
    IF h.kind = "single" THEN preCall(op, 1, beh[1]) ELSE preDo(op, h.n, beh)

\* hooks.x (the main hook) dispatched on the dynamic type of the hooks value.
hooksMain(h, op, beh, ctx) ==
    IF h.kind = "single" THEN mainCall(op, 1, beh[1], ctx) ELSE do(op, h.n, beh, ctx)

\* hooks.postX dispatched on the dynamic type of the hooks value.
hooksPost(h, op, beh, ctx, err) ==
    IF h.kind = "single" THEN postCall(op, 1, beh[1], ctx, err)
    ELSE postDo(op, h.n, beh, ctx, err)

----------------------------------------------------------------------------
(* Contexts and engines *)

\* The ambient chain stored in a context under contextHooksKey by WithHooks:
\* nothing, the typed nil pointer of WithHooks(ctx), or the hook set of WithHooks(ctx, h).
NilPtrHooks == [kind |-> "nilptr", n |-> 0, own |-> "ctx", nils |-> <<>>]
AmbientHooks == [kind |-> "single", n |-> 1, own |-> "ctx", nils |-> <<{}>>]
NoAmbient == [set |-> FALSE, h |-> NilHooks]
Ambients == {NoAmbient, [set |-> TRUE, h |-> NilPtrHooks], [set |-> TRUE, h |-> AmbientHooks]}

\* How the call's context.Context stands towards cancellation: "background" has the
\* Done channel of context.Background(), "live" is cancellable and never done during
\* the call, "late" becomes done while the engine call runs, "done" is done on entry.
CtxKinds == {"background", "live", "late", "done"}
Contexts == [amb : Ambients, kind : CtxKinds]

\* select { default: case <-c.Done(): } before the engine call.
DoneBefore(c) == c.kind = "done"
\* select { default: case <-c.Done(): } after the engine call has returned.
DoneAfter(c) == c.kind \in {"late", "done"}

\* context.Background() with no ambient chain, as Proxy.Open and Conn.Close build it.
Background == [amb |-> NoAmbient, kind |-> "background"]

\* The optional driver interfaces an engine connection and its statements may implement.
Caps == {"Pinger", "ConnPrepareContext", "ConnBeginTx", "Execer", "ExecerContext",
         "Queryer", "QueryerContext", "SessionResetter", "Validator",
         "StmtExecContext", "StmtQueryContext"}
\* Engine connection types: the minimum driver.Conn, one whose direct exec and query
\* are the legacy ones only, one with every interface, one whose direct exec and
\* query are the context-aware ones only.
Profiles == {{}, Caps \ {"ExecerContext", "QueryerContext"}, Caps,
             Caps \ {"Execer", "Queryer"}}

\* driver.TxOptions: a non-default isolation level, read-only.
TxOptions == [iso : BOOLEAN, ro : BOOLEAN]
DefaultOpts == [iso |-> FALSE, ro |-> FALSE]
\* The options the method can tell apart: it reads them only without driver.ConnBeginTx.
OptsFor(caps) == IF "ConnBeginTx" \in caps THEN {DefaultOpts} ELSE TxOptions

\* Mutant of getHooks: the typed nil pointer of WithHooks(ctx) is taken for no value.
getHooksNilFallsBack(phooks, c) ==
    IF c.amb.set /\ c.amb.h # NilPtrHooks THEN c.amb.h ELSE phooks

\* Mutant of getHooks: the context is not consulted.
getHooksProxyOnly(phooks, c) == phooks

\* Proxy.getHooks
getHooks(phooks, c) ==
    IF c.amb.set
    THEN IF c.amb.h = NilPtrHooks THEN NilHooks ELSE c.amb.h
    ELSE phooks

\* The callbacks' behaviours in one call, one per member of the chain h.
Behaviours(h) ==
    {[m \in 1..h.n |-> HookSet(h.nils[m], f[m])] : f \in [1..h.n -> Behaviour]}

----------------------------------------------------------------------------
(* State *)

VARIABLES
    hooks,  \* Proxy.hooks, the construction-time chain
    conn,   \* the Conn wrapper: whether it exists, the engine connection's interfaces,
            \* and the chain whose open hooks were invoked for it
    stmt,   \* whether a Stmt wrapper made by PrepareContext exists
    tx,     \* the Tx wrapper: whether it exists and the ambient chain of Tx.ctx, the context BeginTx got
    pc,     \* "idle": the client may call; "returned": a call has returned to the client
    last,   \* the call that returned last: its inputs, invocations and return values
    connector,  \* the Connector made by Proxy.OpenConnector: which connector it wraps
    running     \* concurrent calls: each goroutine's position and local variables

vars == <<hooks, conn, stmt, tx, pc, last, connector, running>>

NoCall == [op |-> "none", h |-> NilHooks, beh |-> <<>>, c |-> Background, eng |-> NoErr,
           caps |-> {}, named |-> FALSE, opts |-> DefaultOpts,
           trace |-> <<>>, ret |-> NoErr, res |-> "nil", post |-> NoErr]

\* The number of goroutines calling at the same time.
MaxProcs == 2
Procs == 1..MaxProcs

\* A goroutine's call: its position in the method, the chain getHooks gave it, the
\* callbacks' behaviours in this call, and the hook invocations made so far.
NotRunning == [st |-> "idle", h |-> NilHooks, beh |-> <<>>, trace |-> <<>>]
\* No goroutine is in a call; frame[p] is the local variable myctx of p's call.
NoneRunning == [proc |-> [p \in Procs |-> NotRunning], frame |-> [p \in Procs |-> NilCtx]]

\* A call's record.
Call(op, h, beh, c, eng, caps, out) ==
    [op |-> op, h |-> h, beh |-> beh, c |-> c, eng |-> eng, caps |-> caps,
     named |-> FALSE, opts |-> DefaultOpts,
     trace |-> out.trace, ret |-> out.ret, res |-> out.res, post |-> out.post]

\* NewProxyContext(driver, hs...): no hook set, one, or several (nil ones are dropped).
Init ==
    /\ hooks \in HooksValues
    /\ conn = [st |-> "none", caps |-> {}, opener |-> NilHooks]
    /\ stmt = "none"
    /\ tx = [st |-> "none", amb |-> NoAmbient]
    /\ pc = "idle"
    /\ last = NoCall
    /\ connector = "none"
    /\ running = NoneRunning

\* Mutant of Deferred: an error returned by postAlways replaces what the method returns.
DeferredOverriding(h, op, beh, ctx, err, ev, ret, res) ==
    LET post == IF h # NilHooks THEN hooksPost(h, op, beh, ctx, err)
                ELSE [err |-> NoErr, ev |-> <<>>]
    IN [trace |-> ev \o post.ev,
        ret |-> IF post.err # NoErr THEN post.err ELSE ret,
        res |-> res, post |-> post.err]

\* Mutant of Deferred: an error returned by postAlways is returned when the method
\* itself has none to return.
DeferredFillingIn(h, op, beh, ctx, err, ev, ret, res) ==
    LET post == IF h # NilHooks THEN hooksPost(h, op, beh, ctx, err)
                ELSE [err |-> NoErr, ev |-> <<>>]
    IN [trace |-> ev \o post.ev,
        ret |-> IF ret = NoErr THEN post.err ELSE ret,
        res |-> res, post |-> post.err]

\* Mutant of Deferred: postAlways is called where the defer statement stands,
\* before the rest of the method, instead of when the method returns.
DeferredAtOnce(h, op, beh, ctx, err, ev, ret, res) ==
    [trace |-> IF h # NilHooks THEN hooksPost(h, op, beh, NilCtx, NoErr).ev \o ev ELSE ev,
     ret |-> ret, res |-> res,
     post |-> IF h # NilHooks THEN hooksPost(h, op, beh, NilCtx, NoErr).err ELSE NoErr]

\* Mutant of Deferred: the deferred call is handed ctx as it stood at the defer
\* statement (nil) instead of reading it when it fires.
DeferredStaleCtx(h, op, beh, ctx, err, ev, ret, res) ==
    [trace |-> IF h # NilHooks THEN ev \o hooksPost(h, op, beh, NilCtx, err).ev ELSE ev,
     ret |-> ret, res |-> res,
     post |-> IF h # NilHooks THEN hooksPost(h, op, beh, NilCtx, err).err ELSE NoErr]

\* The deferred postAlways call, run when the method returns `ret` and `res`
\* with the local variables ctx and err as they stand then.  post is what the
\* postAlways call returned, which the deferred closure drops.
Deferred(h, op, beh, ctx, err, ev, ret, res) ==
    [trace |-> IF h # NilHooks THEN ev \o hooksPost(h, op, beh, ctx, err).ev ELSE ev,
     ret |-> ret, res |-> res,
     post |-> IF h # NilHooks THEN hooksPost(h, op, beh, ctx, err).err ELSE NoErr]

\* Mutant of Pre: the error of the pre hook is dropped.
PreIgnoringError(h, op, beh) ==
    IF h # NilHooks THEN [hooksPre(h, op, beh) EXCEPT !.err = NoErr]
    ELSE [ctx |-> NilCtx, err |-> NoErr, ev |-> <<>>]

\* The pre hook of a method, if there are hooks.
Pre(h, op, beh) ==
    IF h # NilHooks THEN hooksPre(h, op, beh)
    ELSE [ctx |-> NilCtx, err |-> NoErr, ev |-> <<>>]

\* The main hook of a method, if there are hooks.
Main(h, op, beh, ctx) ==
    IF h # NilHooks THEN hooksMain(h, op, beh, ctx) ELSE [err |-> NoErr, ev |-> <<>>]

----------------------------------------------------------------------------
(* Proxy and Conn *)

\* Proxy.Open: the method's invocations and return values.
ProxyOpen(h, beh, eng) ==
    LET pre == Pre(h, "Open", beh)
    IN IF pre.err # NoErr
       THEN Deferred(h, "Open", beh, pre.ctx, pre.err, pre.ev, pre.err, "nil")
       ELSE IF eng # NoErr
       THEN Deferred(h, "Open", beh, pre.ctx, eng, pre.ev \o <<EngEv("Open")>>, eng, "nil")
       ELSE LET main == Main(h, "Open", beh, pre.ctx)
            IN IF main.err # NoErr
               THEN Deferred(h, "Open", beh, pre.ctx, main.err,
                             pre.ev \o <<EngEv("Open")>> \o main.ev \o <<EngEv("Close")>>,
                             main.err, "nil")
               ELSE Deferred(h, "Open", beh, pre.ctx, NoErr,
                             pre.ev \o <<EngEv("Open")>> \o main.ev, NoErr, "conn")

\* The client works on one object at a time: it makes calls on the connection
\* while no statement or transaction made on it is outstanding.
Free == stmt = "none" /\ tx.st = "none"

\* Proxy.Open(name)
Open ==
    /\ pc = "idle"
    /\ conn.st # "open"
    /\ \E beh \in Behaviours(hooks), eng \in {NoErr, EngineErr}, caps \in Profiles :
         LET out == ProxyOpen(hooks, beh, eng)
         IN /\ last' = Call("Open", hooks, beh, Background, eng, {}, out)
            /\ conn' = IF out.res = "conn"
                       THEN [st |-> "open", caps |-> caps, opener |-> hooks] ELSE conn
    /\ pc' = "returned"
    /\ UNCHANGED <<hooks, stmt, tx, connector, running>>

\* Conn.Ping: the method's invocations and return values.
ConnPing(h, beh, caps, eng) ==
    LET pre == Pre(h, "Ping", beh)
    IN IF pre.err # NoErr
       THEN Deferred(h, "Ping", beh, pre.ctx, pre.err, pre.ev, pre.err, "nil")
       ELSE LET called == "Pinger" \in caps
                err == IF called THEN eng ELSE NoErr
                ev == pre.ev \o (IF called THEN <<EngEv("Ping")>> ELSE <<>>)
            IN IF err # NoErr
               THEN Deferred(h, "Ping", beh, pre.ctx, err, ev, err, "nil")
               ELSE LET main == Main(h, "Ping", beh, pre.ctx)
                    IN Deferred(h, "Ping", beh, pre.ctx, main.err, ev \o main.ev,
                                main.err, "nil")

\* Conn.Ping(c)
Ping ==
    /\ pc = "idle"
    /\ conn.st = "open"
    /\ Free
    /\ \E amb \in Ambients, eng \in {NoErr, EngineErr} :
         LET c == [amb |-> amb, kind |-> "live"]
             h == getHooks(hooks, c)
         IN \E beh \in Behaviours(h) :
              last' = Call("Ping", h, beh, c, eng, conn.caps,
                           ConnPing(h, beh, conn.caps, eng))
    /\ pc' = "returned"
    /\ UNCHANGED <<hooks, conn, stmt, tx, connector, running>>

\* Conn.ResetSession: the method's invocations and return values.
ConnResetSession(h, beh, caps, eng) ==
    LET pre == Pre(h, "ResetSession", beh)
    IN IF pre.err # NoErr
       THEN Deferred(h, "ResetSession", beh, pre.ctx, pre.err, pre.ev, pre.err, "nil")
       ELSE LET called == "SessionResetter" \in caps
                err == IF called THEN eng ELSE NoErr
                ev == pre.ev \o (IF called THEN <<EngEv("ResetSession")>> ELSE <<>>)
            IN IF err # NoErr
               THEN Deferred(h, "ResetSession", beh, pre.ctx, err, ev, err, "nil")
               ELSE LET main == Main(h, "ResetSession", beh, pre.ctx)
                    IN Deferred(h, "ResetSession", beh, pre.ctx, main.err, ev \o main.ev,
                                main.err, "nil")

\* Conn.ResetSession(ctx)
ResetSession ==
    /\ pc = "idle"
    /\ conn.st = "open"
    /\ Free
    /\ \E amb \in Ambients, eng \in {NoErr, EngineErr} :
         LET c == [amb |-> amb, kind |-> "live"]
             h == getHooks(hooks, c)
         IN \E beh \in Behaviours(h) :
              last' = Call("ResetSession", h, beh, c, eng, conn.caps,
                           ConnResetSession(h, beh, conn.caps, eng))
    /\ pc' = "returned"
    /\ UNCHANGED <<hooks, conn, stmt, tx, connector, running>>

\* Mutant of ConnClose: the error of the main close hook is not returned.
ConnCloseSwallowing(h, beh, eng) ==
    LET pre == Pre(h, "Close", beh)
    IN IF pre.err # NoErr
       THEN Deferred(h, "Close", beh, pre.ctx, pre.err, pre.ev, pre.err, "nil")
       ELSE IF eng # NoErr
       THEN Deferred(h, "Close", beh, pre.ctx, eng, pre.ev \o <<EngEv("Close")>>, eng, "nil")
       ELSE LET main == Main(h, "Close", beh, pre.ctx)
            IN Deferred(h, "Close", beh, pre.ctx, main.err,
                        pre.ev \o <<EngEv("Close")>> \o main.ev, NoErr, "nil")

\* Conn.Close: the method's invocations and return values.  The chain is
\* conn.Proxy.hooks, whatever the contexts of earlier calls carried.
ConnClose(h, beh, eng) ==
    LET pre == Pre(h, "Close", beh)
    IN IF pre.err # NoErr
       THEN Deferred(h, "Close", beh, pre.ctx, pre.err, pre.ev, pre.err, "nil")
       ELSE IF eng # NoErr
       THEN Deferred(h, "Close", beh, pre.ctx, eng, pre.ev \o <<EngEv("Close")>>, eng, "nil")
       ELSE LET main == Main(h, "Close", beh, pre.ctx)
            IN Deferred(h, "Close", beh, pre.ctx, main.err,
                        pre.ev \o <<EngEv("Close")>> \o main.ev, main.err, "nil")

\* Conn.Close()
Close ==
    /\ pc = "idle"
    /\ conn.st = "open"
    /\ Free
    /\ \E beh \in Behaviours(hooks), eng \in {NoErr, EngineErr} :
         last' = Call("Close", hooks, beh, Background, eng, conn.caps,
                      ConnClose(hooks, beh, eng))
    /\ conn' = [st |-> "closed", caps |-> {}, opener |-> conn.opener]
    /\ stmt' = "none"
    /\ tx' = [st |-> "none", amb |-> NoAmbient]
    /\ pc' = "returned"
    /\ UNCHANGED <<hooks, connector, running>>

\* Mutant of ConnPrepareContext: preparing runs a pre hook of its own.
ConnPrepareContextHooked(c, caps, eng) ==
    [trace |-> <<HookEv("pre", "Prepare", 1, NilCtx, NoErr),
                 EngEv(IF "ConnPrepareContext" \in caps THEN "PrepareContext" ELSE "Prepare")>>,
     ret |-> eng, res |-> IF eng = NoErr THEN "stmt" ELSE "nil", post |-> NoErr]

\* Conn.PrepareContext: no hook is involved.
ConnPrepareContext(c, caps, eng) ==
    IF "ConnPrepareContext" \in caps
    THEN [trace |-> <<EngEv("PrepareContext")>>, ret |-> eng,
          res |-> IF eng = NoErr THEN "stmt" ELSE "nil", post |-> NoErr]
    ELSE IF eng = NoErr /\ DoneAfter(c)
    THEN [trace |-> <<EngEv("Prepare"), EngEv("StmtClose")>>, ret |-> CtxErr,
          res |-> "nil", post |-> NoErr]
    ELSE [trace |-> <<EngEv("Prepare")>>, ret |-> eng,
          res |-> IF eng = NoErr THEN "stmt" ELSE "nil", post |-> NoErr]

\* The cancellation states of the call's context that the method can tell apart:
\* it looks at c.Done() only when the engine lacks the context-aware interface.
KindsFor(caps, cap) == IF cap \in caps THEN {"live"} ELSE CtxKinds

\* Conn.PrepareContext(c, query)
PrepareContext ==
    /\ pc = "idle"
    /\ conn.st = "open"
    /\ Free
    /\ \E amb \in Ambients, kind \in KindsFor(conn.caps, "ConnPrepareContext"),
          eng \in {NoErr, EngineErr} :
         LET c == [amb |-> amb, kind |-> kind]
             out == ConnPrepareContext(c, conn.caps, eng)
         IN /\ last' = Call("Prepare", NilHooks, <<>>, c, eng, conn.caps, out)
            /\ stmt' = IF out.res = "stmt" THEN "open" ELSE stmt
    /\ pc' = "returned"
    /\ UNCHANGED <<hooks, conn, tx, connector, running>>

\* Mutant of BeginEngine: the context is not looked at after conn.Conn.Begin().
BeginEngineUnchecked(c, opts, caps, eng) ==
    IF "ConnBeginTx" \in caps
    THEN [ev |-> <<EngEv("BeginTx")>>, err |-> eng, early |-> NoErr]
    ELSE IF c.kind # "background" /\ opts.iso
    THEN [ev |-> <<>>, err |-> NoErr, early |-> ErrIsolation]
    ELSE IF c.kind # "background" /\ opts.ro
    THEN [ev |-> <<>>, err |-> NoErr, early |-> ErrReadOnly]
    ELSE [ev |-> <<EngEv("Begin")>>, err |-> eng, early |-> NoErr]

\* Mutant of BeginEngine: the options are refused whatever the context is.
BeginEngineStrict(c, opts, caps, eng) ==
    IF "ConnBeginTx" \in caps
    THEN [ev |-> <<EngEv("BeginTx")>>, err |-> eng, early |-> NoErr]
    ELSE IF opts.iso
    THEN [ev |-> <<>>, err |-> NoErr, early |-> ErrIsolation]
    ELSE IF opts.ro
    THEN [ev |-> <<>>, err |-> NoErr, early |-> ErrReadOnly]
    ELSE IF eng = NoErr /\ DoneAfter(c)
    THEN [ev |-> <<EngEv("Begin"), EngEv("TxRollback")>>, err |-> CtxErr, early |-> NoErr]
    ELSE [ev |-> <<EngEv("Begin")>>, err |-> eng, early |-> NoErr]

\* The engine part of Conn.BeginTx: the invocations, the value of the local err
\* afterwards, and `early`, the error of a return statement that leaves err untouched.
BeginEngine(c, opts, caps, eng) ==
    IF "ConnBeginTx" \in caps
    THEN [ev |-> <<EngEv("BeginTx")>>, err |-> eng, early |-> NoErr]
    ELSE IF c.kind # "background" /\ opts.iso
    THEN [ev |-> <<>>, err |-> NoErr, early |-> ErrIsolation]
    ELSE IF c.kind # "background" /\ opts.ro
    THEN [ev |-> <<>>, err |-> NoErr, early |-> ErrReadOnly]
    ELSE IF eng = NoErr /\ DoneAfter(c)
    THEN [ev |-> <<EngEv("Begin"), EngEv("TxRollback")>>, err |-> CtxErr, early |-> NoErr]
    ELSE [ev |-> <<EngEv("Begin")>>, err |-> eng, early |-> NoErr]

\* Mutant of ConnBeginTx: a transaction rejected by the main hook is rolled back
\* through the Tx wrapper, whose rollback hooks fire.
ConnBeginTxWrapperRollback(h, beh, c, opts, caps, eng) ==
    LET pre == Pre(h, "Begin", beh)
    IN IF pre.err # NoErr
       THEN Deferred(h, "Begin", beh, pre.ctx, pre.err, pre.ev, pre.err, "nil")
       ELSE LET e == BeginEngine(c, opts, caps, eng)
            IN IF e.early # NoErr
               THEN Deferred(h, "Begin", beh, pre.ctx, e.err, pre.ev \o e.ev, e.early, "nil")
               ELSE IF e.err # NoErr
               THEN Deferred(h, "Begin", beh, pre.ctx, e.err, pre.ev \o e.ev, e.err, "nil")
               ELSE LET main == Main(h, "Begin", beh, pre.ctx)
                    IN IF main.err # NoErr
                       THEN Deferred(h, "Begin", beh, pre.ctx, main.err,
                                     pre.ev \o e.ev \o main.ev
                                         \o Pre(h, "Rollback", beh).ev
                                         \o <<EngEv("TxRollback")>>,
                                     main.err, "nil")
                       ELSE Deferred(h, "Begin", beh, pre.ctx, NoErr,
                                     pre.ev \o e.ev \o main.ev, NoErr, "tx")

\* Conn.BeginTx: the method's invocations and return values.
ConnBeginTx(h, beh, c, opts, caps, eng) ==
    LET pre == Pre(h, "Begin", beh)
    IN IF pre.err # NoErr
       THEN Deferred(h, "Begin", beh, pre.ctx, pre.err, pre.ev, pre.err, "nil")
       ELSE LET e == BeginEngine(c, opts, caps, eng)
            IN IF e.early # NoErr
               THEN Deferred(h, "Begin", beh, pre.ctx, e.err, pre.ev \o e.ev, e.early, "nil")
               ELSE IF e.err # NoErr
               THEN Deferred(h, "Begin", beh, pre.ctx, e.err, pre.ev \o e.ev, e.err, "nil")
               ELSE LET main == Main(h, "Begin", beh, pre.ctx)
                    IN IF main.err.e = "panic"
                       THEN Deferred(h, "Begin", beh, pre.ctx, NoErr,
                                     pre.ev \o e.ev \o main.ev, main.err, "nil")
                       ELSE IF main.err # NoErr
                       THEN Deferred(h, "Begin", beh, pre.ctx, main.err,
                                     pre.ev \o e.ev \o main.ev \o <<EngEv("TxRollback")>>,
                                     main.err, "nil")
                       ELSE Deferred(h, "Begin", beh, pre.ctx, NoErr,
                                     pre.ev \o e.ev \o main.ev, NoErr, "tx")

\* Conn.BeginTx(c, opts)
BeginTx ==
    /\ pc = "idle"
    /\ conn.st = "open"
    /\ Free
    /\ \E amb \in Ambients, kind \in KindsFor(conn.caps, "ConnBeginTx"),
          opts \in OptsFor(conn.caps), eng \in {NoErr, EngineErr} :
         LET c == [amb |-> amb, kind |-> kind]
             h == getHooks(hooks, c)
         IN \E beh \in Behaviours(h) :
              LET out == ConnBeginTx(h, beh, c, opts, conn.caps, eng)
              IN /\ last' = [Call("Begin", h, beh, c, eng, conn.caps, out)
                              EXCEPT !.opts = opts]
                 /\ tx' = IF out.res = "tx" THEN [st |-> "active", amb |-> c.amb] ELSE tx
    /\ pc' = "returned"
    /\ UNCHANGED <<hooks, conn, stmt, connector, running>>

\* Mutant of DirectEngine: driver.ErrSkip from the engine is turned into another error.
DirectEngineTranslating(ctxOp, legacyOp, ctxAware, c, named, eng) ==
    LET e == IF eng = ErrSkip THEN EngineErr ELSE eng
    IN IF ctxAware
       THEN [ev |-> <<EngEv(ctxOp)>>, err |-> e, early |-> NoErr]
       ELSE IF DoneBefore(c)
       THEN [ev |-> <<>>, err |-> NoErr, early |-> CtxErr]
       ELSE IF named
       THEN [ev |-> <<>>, err |-> NoErr, early |-> ErrNamed]
       ELSE [ev |-> <<EngEv(legacyOp)>>, err |-> e, early |-> NoErr]

\* The engine part of an exec or query method whose engine object has the
\* context-aware interface (ctxAware) or only the legacy one: the invocations, the
\* local err afterwards, and `early`, the error of a return that leaves err untouched.
\* named: some argument carries a name, which namedValuesToValues rejects.
DirectEngine(ctxOp, legacyOp, ctxAware, c, named, eng) ==
    IF ctxAware
    THEN [ev |-> <<EngEv(ctxOp)>>, err |-> eng, early |-> NoErr]
    ELSE IF DoneBefore(c)
    THEN [ev |-> <<>>, err |-> NoErr, early |-> CtxErr]
    ELSE IF named
    THEN [ev |-> <<>>, err |-> NoErr, early |-> ErrNamed]
    ELSE [ev |-> <<EngEv(legacyOp)>>, err |-> eng, early |-> NoErr]

\* Mutant of ConnExecContext: the hooks are set up before the engine connection is
\* asked for driver.Execer.
ConnExecContextHooksFirst(h, beh, c, named, caps, eng) ==
    LET pre == Pre(h, "Exec", beh)
    IN IF pre.err # NoErr
       THEN Deferred(h, "Exec", beh, pre.ctx, pre.err, pre.ev, pre.err, "nil")
       ELSE IF "Execer" \notin caps
       THEN Deferred(h, "Exec", beh, pre.ctx, NoErr, pre.ev, ErrSkip, "nil")
       ELSE LET e == DirectEngine("ExecContext", "Exec", "ExecerContext" \in caps,
                                  c, named, eng)
            IN IF e.early # NoErr
               THEN Deferred(h, "Exec", beh, pre.ctx, e.err, pre.ev \o e.ev, e.early, "nil")
               ELSE IF e.err # NoErr
               THEN Deferred(h, "Exec", beh, pre.ctx, e.err, pre.ev \o e.ev, e.err, "nil")
               ELSE LET main == Main(h, "Exec", beh, pre.ctx)
                    IN IF main.err # NoErr
                       THEN Deferred(h, "Exec", beh, pre.ctx, main.err,
                                     pre.ev \o e.ev \o main.ev, main.err, "nil")
                       ELSE Deferred(h, "Exec", beh, pre.ctx, NoErr,
                                     pre.ev \o e.ev \o main.ev, NoErr, "result")

\* Conn.ExecContext: the method's invocations and return values.
ConnExecContext(h, beh, c, named, caps, eng) ==
    IF "Execer" \notin caps
    THEN [trace |-> <<>>, ret |-> ErrSkip, res |-> "nil", post |-> NoErr]
    ELSE LET pre == Pre(h, "Exec", beh)
         IN IF pre.err # NoErr
            THEN Deferred(h, "Exec", beh, pre.ctx, pre.err, pre.ev, pre.err, "nil")
            ELSE LET e == DirectEngine("ExecContext", "Exec", "ExecerContext" \in caps,
                                       c, named, eng)
                 IN IF e.early # NoErr
                    THEN Deferred(h, "Exec", beh, pre.ctx, e.err, pre.ev \o e.ev,
                                  e.early, "nil")
                    ELSE IF e.err # NoErr
                    THEN Deferred(h, "Exec", beh, pre.ctx, e.err, pre.ev \o e.ev,
                                  e.err, "nil")
                    ELSE LET main == Main(h, "Exec", beh, pre.ctx)
                         IN IF main.err # NoErr
                            THEN Deferred(h, "Exec", beh, pre.ctx, main.err,
                                          pre.ev \o e.ev \o main.ev, main.err, "nil")
                            ELSE Deferred(h, "Exec", beh, pre.ctx, NoErr,
                                          pre.ev \o e.ev \o main.ev, NoErr, "result")

\* Conn.QueryContext: the method's invocations and return values.
ConnQueryContext(h, beh, c, named, caps, eng) ==
    IF "Queryer" \notin caps
    THEN [trace |-> <<>>, ret |-> ErrSkip, res |-> "nil", post |-> NoErr]
    ELSE LET pre == Pre(h, "Query", beh)
         IN IF pre.err # NoErr
            THEN Deferred(h, "Query", beh, pre.ctx, pre.err, pre.ev, pre.err, "nil")
            ELSE LET e == DirectEngine("QueryContext", "Query", "QueryerContext" \in caps,
                                       c, named, eng)
                 IN IF e.early # NoErr
                    THEN Deferred(h, "Query", beh, pre.ctx, e.err, pre.ev \o e.ev,
                                  e.early, "nil")
                    ELSE IF e.err # NoErr
                    THEN Deferred(h, "Query", beh, pre.ctx, e.err, pre.ev \o e.ev,
                                  e.err, "nil")
                    ELSE LET main == Main(h, "Query", beh, pre.ctx)
                         IN IF main.err # NoErr
                            THEN Deferred(h, "Query", beh, pre.ctx, main.err,
                                          pre.ev \o e.ev \o main.ev \o <<EngEv("RowsClose")>>,
                                          main.err, "nil")
                            ELSE Deferred(h, "Query", beh, pre.ctx, NoErr,
                                          pre.ev \o e.ev \o main.ev, NoErr, "rows")

\* What an engine exec or query may return: success, an error of its own, driver.ErrSkip.
ExecOutcomes == {NoErr, EngineErr, ErrSkip}

\* The inputs of an exec or query call that the method can tell apart: without the
\* legacy interface (has) it returns at once, with the context-aware one (ctxAware)
\* it reads neither c.Done() nor the arguments' names.
ExecKinds(has, ctxAware) ==
    IF has /\ ~ctxAware THEN CtxKinds \ {"background"} ELSE {"live"}
ExecNamed(has, ctxAware) == IF has /\ ~ctxAware THEN BOOLEAN ELSE {FALSE}
ExecEng(has) == IF has THEN ExecOutcomes ELSE {NoErr}

\* Conn.ExecContext(c, query, args)
ExecContext ==
    /\ pc = "idle"
    /\ conn.st = "open"
    /\ Free
    /\ LET has == "Execer" \in conn.caps
           ctxAware == "ExecerContext" \in conn.caps
       IN \E amb \in Ambients, kind \in ExecKinds(has, ctxAware),
             named \in ExecNamed(has, ctxAware), eng \in ExecEng(has) :
            LET c == [amb |-> amb, kind |-> kind]
                h == getHooks(hooks, c)
            IN \E beh \in Behaviours(h) :
                 last' = [Call("Exec", h, beh, c, eng, conn.caps,
                               ConnExecContext(h, beh, c, named, conn.caps, eng))
                          EXCEPT !.named = named]
    /\ pc' = "returned"
    /\ UNCHANGED <<hooks, conn, stmt, tx, connector, running>>

\* Conn.QueryContext(c, query, args)
QueryContext ==
    /\ pc = "idle"
    /\ conn.st = "open"
    /\ Free
    /\ LET has == "Queryer" \in conn.caps
           ctxAware == "QueryerContext" \in conn.caps
       IN \E amb \in Ambients, kind \in ExecKinds(has, ctxAware),
             named \in ExecNamed(has, ctxAware), eng \in ExecEng(has) :
            LET c == [amb |-> amb, kind |-> kind]
                h == getHooks(hooks, c)
            IN \E beh \in Behaviours(h) :
                 last' = [Call("Query", h, beh, c, eng, conn.caps,
                               ConnQueryContext(h, beh, c, named, conn.caps, eng))
                          EXCEPT !.named = named]
    /\ pc' = "returned"
    /\ UNCHANGED <<hooks, conn, stmt, tx, connector, running>>

----------------------------------------------------------------------------
(* Stmt *)

\* Stmt.ExecContext: the method's invocations and return values.  It returns the
\* engine's result next to the error of the main hook.
StmtExec(h, beh, c, named, caps, eng) ==
    LET pre == Pre(h, "Exec", beh)
    IN IF pre.err # NoErr
       THEN Deferred(h, "Exec", beh, pre.ctx, pre.err, pre.ev, pre.err, "nil")
       ELSE LET e == DirectEngine("StmtExecContext", "StmtExec", "StmtExecContext" \in caps,
                                  c, named, eng)
            IN IF e.early # NoErr
               THEN Deferred(h, "Exec", beh, pre.ctx, e.err, pre.ev \o e.ev, e.early, "nil")
               ELSE IF e.err # NoErr
               THEN Deferred(h, "Exec", beh, pre.ctx, e.err, pre.ev \o e.ev, e.err, "nil")
               ELSE LET main == Main(h, "Exec", beh, pre.ctx)
                    IN IF main.err # NoErr
                       THEN Deferred(h, "Exec", beh, pre.ctx, main.err,
                                     pre.ev \o e.ev \o main.ev, main.err, "result")
                       ELSE Deferred(h, "Exec", beh, pre.ctx, NoErr,
                                     pre.ev \o e.ev \o main.ev, NoErr, "result")

\* Stmt.QueryContext: the method's invocations and return values.
StmtQuery(h, beh, c, named, caps, eng) ==
    LET pre == Pre(h, "Query", beh)
    IN IF pre.err # NoErr
       THEN Deferred(h, "Query", beh, pre.ctx, pre.err, pre.ev, pre.err, "nil")
       ELSE LET e == DirectEngine("StmtQueryContext", "StmtQuery",
                                  "StmtQueryContext" \in caps, c, named, eng)
            IN IF e.early # NoErr
               THEN Deferred(h, "Query", beh, pre.ctx, e.err, pre.ev \o e.ev, e.early, "nil")
               ELSE IF e.err # NoErr
               THEN Deferred(h, "Query", beh, pre.ctx, e.err, pre.ev \o e.ev, e.err, "nil")
               ELSE LET main == Main(h, "Query", beh, pre.ctx)
                    IN IF main.err # NoErr
                       THEN Deferred(h, "Query", beh, pre.ctx, main.err,
                                     pre.ev \o e.ev \o main.ev, main.err, "nil")
                       ELSE Deferred(h, "Query", beh, pre.ctx, NoErr,
                                     pre.ev \o e.ev \o main.ev, NoErr, "rows")

\* Stmt.ExecContext(c, args)
StmtExecContext ==
    /\ pc = "idle"
    /\ stmt = "open"
    /\ LET ctxAware == "StmtExecContext" \in conn.caps
       IN \E amb \in Ambients, kind \in ExecKinds(TRUE, ctxAware),
             named \in ExecNamed(TRUE, ctxAware), eng \in ExecOutcomes :
            LET c == [amb |-> amb, kind |-> kind]
                h == getHooks(hooks, c)
            IN \E beh \in Behaviours(h) :
                 last' = [Call("StmtExec", h, beh, c, eng, conn.caps,
                               StmtExec(h, beh, c, named, conn.caps, eng))
                          EXCEPT !.named = named]
    /\ pc' = "returned"
    /\ UNCHANGED <<hooks, conn, stmt, tx, connector, running>>

\* Stmt.QueryContext(c, args)
StmtQueryContext ==
    /\ pc = "idle"
    /\ stmt = "open"
    /\ LET ctxAware == "StmtQueryContext" \in conn.caps
       IN \E amb \in Ambients, kind \in ExecKinds(TRUE, ctxAware),
             named \in ExecNamed(TRUE, ctxAware), eng \in ExecOutcomes :
            LET c == [amb |-> amb, kind |-> kind]
                h == getHooks(hooks, c)
            IN \E beh \in Behaviours(h) :
                 last' = [Call("StmtQuery", h, beh, c, eng, conn.caps,
                               StmtQuery(h, beh, c, named, conn.caps, eng))
                          EXCEPT !.named = named]
    /\ pc' = "returned"
    /\ UNCHANGED <<hooks, conn, stmt, tx, connector, running>>

\* Stmt.Close(): the engine statement's Close, no hook.
StmtClose ==
    /\ pc = "idle"
    /\ stmt = "open"
    /\ \E eng \in {NoErr, EngineErr} :
         last' = Call("StmtClose", NilHooks, <<>>, Background, eng, conn.caps,
                      [trace |-> <<EngEv("StmtClose")>>, ret |-> eng, res |-> "nil", post |-> NoErr])
    /\ stmt' = "none"
    /\ pc' = "returned"
    /\ UNCHANGED <<hooks, conn, tx, connector, running>>

----------------------------------------------------------------------------
(* Tx *)

\* Tx.Commit and Tx.Rollback: the method's invocations and return values.  The
\* main hook's error is returned without being stored in the local err.
TxEnd(op, h, beh, eng) ==
    LET pre == Pre(h, op, beh)
    IN IF pre.err # NoErr
       THEN Deferred(h, op, beh, pre.ctx, pre.err, pre.ev, pre.err, "nil")
       ELSE IF eng # NoErr
       THEN Deferred(h, op, beh, pre.ctx, eng, pre.ev \o <<EngEv(op)>>, eng, "nil")
       ELSE LET main == Main(h, op, beh, pre.ctx)
            IN Deferred(h, op, beh, pre.ctx, eng, pre.ev \o <<EngEv(op)>> \o main.ev,
                        main.err, "nil")

\* Mutant of TxHooks: the chain of a transaction is the construction-time chain.
TxHooksOfProxy(phooks, t) == phooks

\* tx.Proxy.getHooks(tx.ctx): the chain of a transaction is resolved from the
\* context BeginTx stored in the Tx wrapper.
TxContext(t) == [amb |-> t.amb, kind |-> "live"]
TxHooks(phooks, t) == getHooks(phooks, TxContext(t))

\* Tx.Commit()
Commit ==
    /\ pc = "idle"
    /\ tx.st = "active"
    /\ LET c == TxContext(tx)
           h == TxHooks(hooks, tx)
       IN \E beh \in Behaviours(h), eng \in {NoErr, EngineErr} :
            last' = Call("Commit", h, beh, c, eng, conn.caps, TxEnd("Commit", h, beh, eng))
    /\ tx' = [st |-> "none", amb |-> NoAmbient]
    /\ pc' = "returned"
    /\ UNCHANGED <<hooks, conn, stmt, connector, running>>

\* Tx.Rollback()
Rollback ==
    /\ pc = "idle"
    /\ tx.st = "active"
    /\ LET c == TxContext(tx)
           h == TxHooks(hooks, tx)
       IN \E beh \in Behaviours(h), eng \in {NoErr, EngineErr} :
            last' = Call("Rollback", h, beh, c, eng, conn.caps,
                         TxEnd("Rollback", h, beh, eng))
    /\ tx' = [st |-> "none", amb |-> NoAmbient]
    /\ pc' = "returned"
    /\ UNCHANGED <<hooks, conn, stmt, connector, running>>

\* The client takes the returned values; the next call starts from a clean record.
Return ==
    /\ pc = "returned"
    /\ pc' = "idle"
    /\ last' = NoCall
    /\ UNCHANGED <<hooks, conn, stmt, tx, connector, running>>

Next ==
    \/ Open
    \/ Ping
    \/ ResetSession
    \/ Close
    \/ PrepareContext
    \/ BeginTx
    \/ ExecContext
    \/ QueryContext
    \/ StmtExecContext
    \/ StmtQueryContext
    \/ StmtClose
    \/ Commit
    \/ Rollback
    \/ Return

Spec == Init /\ [][Next]_vars

----------------------------------------------------------------------------
(* Connector *)

\* Connector.Connector.Connect: the Connect of the engine's own connector, or that of
\* fallbackConnector, which opens by name and then looks at the context.
InnerConnect(kind, c, eng) ==
    IF kind = "engine" THEN [err |-> eng, ev |-> <<EngEv("Connect")>>]
    ELSE IF eng # NoErr THEN [err |-> eng, ev |-> <<EngEv("Open")>>]
    ELSE IF DoneAfter(c) THEN [err |-> CtxErr, ev |-> <<EngEv("Open"), EngEv("Close")>>]
    ELSE [err |-> NoErr, ev |-> <<EngEv("Open")>>]

\* Mutant of ConnectorConnect: without the engine's own connector the connection is
\* opened through Proxy.Open.
ConnectorConnectViaOpen(h, beh, c, kind, eng) ==
    LET pre == Pre(h, "Open", beh)
    IN IF pre.err # NoErr
       THEN Deferred(h, "Open", beh, pre.ctx, pre.err, pre.ev, pre.err, "nil")
       ELSE LET in == IF kind = "engine" THEN InnerConnect(kind, c, eng)
                      ELSE LET o == ProxyOpen(h, beh, eng)
                           IN [err |-> o.ret, ev |-> o.trace]
            IN IF in.err # NoErr
               THEN Deferred(h, "Open", beh, pre.ctx, in.err, pre.ev \o in.ev, in.err, "nil")
               ELSE LET main == Main(h, "Open", beh, pre.ctx)
                    IN IF main.err # NoErr
                       THEN Deferred(h, "Open", beh, pre.ctx, main.err,
                                     pre.ev \o in.ev \o main.ev \o <<EngEv("Close")>>,
                                     main.err, "nil")
                       ELSE Deferred(h, "Open", beh, pre.ctx, NoErr,
                                     pre.ev \o in.ev \o main.ev, NoErr, "conn")

\* Mutant of ConnectorConnect: the engine connection is kept and wrapped when the
\* main hook fails.
ConnectorConnectLeaking(h, beh, c, kind, eng) ==
    LET pre == Pre(h, "Open", beh)
    IN IF pre.err # NoErr
       THEN Deferred(h, "Open", beh, pre.ctx, pre.err, pre.ev, pre.err, "nil")
       ELSE LET in == InnerConnect(kind, c, eng)
            IN IF in.err # NoErr
               THEN Deferred(h, "Open", beh, pre.ctx, in.err, pre.ev \o in.ev, in.err, "nil")
               ELSE LET main == Main(h, "Open", beh, pre.ctx)
                    IN Deferred(h, "Open", beh, pre.ctx, main.err,
                                pre.ev \o in.ev \o main.ev, main.err, "conn")

\* Connector.Connect: the method's invocations and return values.
ConnectorConnect(h, beh, c, kind, eng) ==
    LET pre == Pre(h, "Open", beh)
    IN IF pre.err # NoErr
       THEN Deferred(h, "Open", beh, pre.ctx, pre.err, pre.ev, pre.err, "nil")
       ELSE LET in == InnerConnect(kind, c, eng)
            IN IF in.err # NoErr
               THEN Deferred(h, "Open", beh, pre.ctx, in.err, pre.ev \o in.ev, in.err, "nil")
               ELSE LET main == Main(h, "Open", beh, pre.ctx)
                    IN IF main.err # NoErr
                       THEN Deferred(h, "Open", beh, pre.ctx, main.err,
                                     pre.ev \o in.ev \o main.ev \o <<EngEv("Close")>>,
                                     main.err, "nil")
                       ELSE Deferred(h, "Open", beh, pre.ctx, NoErr,
                                     pre.ev \o in.ev \o main.ev, NoErr, "conn")

\* Proxy.OpenConnector: the engine's own connector if its driver is a
\* driver.DriverContext (dc), a fallbackConnector otherwise.
ProxyOpenConnector(dc, eng) ==
    IF ~dc THEN [trace |-> <<>>, ret |-> NoErr, res |-> "fallback", post |-> NoErr]
    ELSE [trace |-> <<EngEv("OpenConnector")>>, ret |-> eng,
          res |-> IF eng = NoErr THEN "engine" ELSE "nil", post |-> NoErr]

\* Proxy.OpenConnector(name)
OpenConnector ==
    /\ pc = "idle"
    /\ connector = "none"
    /\ \E dc \in BOOLEAN, eng \in {NoErr, EngineErr} :
         LET out == ProxyOpenConnector(dc, eng)
         IN /\ last' = Call("OpenConnector", NilHooks, <<>>, Background, eng, {}, out)
            /\ connector' = IF out.ret = NoErr THEN out.res ELSE connector
    /\ pc' = "returned"
    /\ UNCHANGED <<hooks, conn, stmt, tx, running>>

\* Connector.Connect(ctx)
Connect ==
    /\ pc = "idle"
    /\ connector # "none"
    /\ conn.st # "open"
    /\ \E c \in Contexts, eng \in {NoErr, EngineErr}, caps \in Profiles :
         LET h == getHooks(hooks, c)
         IN \E beh \in Behaviours(h) :
              LET out == ConnectorConnect(h, beh, c, connector, eng)
              IN /\ last' = Call("Connect", h, beh, c, eng, {}, out)
                 /\ conn' = IF out.res = "conn"
                            THEN [st |-> "open", caps |-> caps, opener |-> h]
                            ELSE conn
    /\ pc' = "returned"
    /\ UNCHANGED <<hooks, stmt, tx, connector, running>>

\* Connector.Close: closes the wrapped connector if it is an io.Closer.
ConnectorClose ==
    /\ pc = "idle"
    /\ connector # "none"
    /\ \E closer \in BOOLEAN, eng \in {NoErr, EngineErr} :
         last' = Call("ConnectorClose", NilHooks, <<>>, Background, eng, {},
                      [trace |-> IF closer /\ connector = "engine"
                                 THEN <<EngEv("CloseConnector")>> ELSE <<>>,
                       ret |-> IF closer /\ connector = "engine" THEN eng ELSE NoErr,
                       res |-> "nil", post |-> NoErr])
    /\ connector' = "none"
    /\ pc' = "returned"
    /\ UNCHANGED <<hooks, conn, stmt, tx, running>>

\* A client that connects through Proxy.OpenConnector or through Proxy.Open.
NextConnector ==
    \/ OpenConnector
    \/ Connect
    \/ ConnectorClose
    \/ Open
    \/ Ping
    \/ Close
    \/ Return

SpecConnector == Init /\ [][NextConnector]_vars

----------------------------------------------------------------------------
(* Concurrent calls on connections of one Proxy *)

\* Mutant of Frame: the context value is kept in one place shared by all calls.
FrameShared(p) == 1

\* Where a call keeps the context value its pre hook returned: the local variable
\* ctx of the method's own invocation.
Frame(p) == p

\* The callbacks' behaviours in a call none of whose callbacks fails.
CalmBehaviours(h) ==
    {[m \in 1..h.n |-> HookSet(h.nils[m], [ctx |-> f[m], pre |-> FALSE, main |-> FALSE,
                                           post |-> FALSE])] : f \in [1..h.n -> BOOLEAN]}

\* Conn.Ping up to the pre hook: the chain is read with getHooks and the value the
\* pre hook returns is stored in the local variable ctx.
GoPre(p) ==
    /\ running.proc[p].st \in {"idle", "done"}
    /\ \E amb \in Ambients :
         LET h == getHooks(hooks, [amb |-> amb, kind |-> "background"])
         IN \E beh \in CalmBehaviours(h) :
              LET pre == Pre(h, "Ping", beh)
              IN running' = [proc |-> [running.proc EXCEPT ![p] =
                                          [st |-> "pre", h |-> h, beh |-> beh,
                                           trace |-> pre.ev]],
                             frame |-> [running.frame EXCEPT ![Frame(p)] = pre.ctx]]
    /\ UNCHANGED <<hooks, conn, stmt, tx, pc, last, connector>>

\* Conn.Ping: the engine's Ping.
GoEngine(p) ==
    /\ running.proc[p].st = "pre"
    /\ running' = [running EXCEPT !.proc[p].st = "engine",
                                  !.proc[p].trace = Append(@, EngEv("Ping"))]
    /\ UNCHANGED <<hooks, conn, stmt, tx, pc, last, connector>>

\* Conn.Ping: the main hook, called with the local variable ctx.
GoMain(p) ==
    /\ running.proc[p].st = "engine"
    /\ LET r == running.proc[p]
           main == Main(r.h, "Ping", r.beh, running.frame[Frame(p)])
       IN running' = [running EXCEPT !.proc[p].st = IF main.err = NoErr THEN "main"
                                                    ELSE "failed",
                                     !.proc[p].trace = @ \o main.ev]
    /\ UNCHANGED <<hooks, conn, stmt, tx, pc, last, connector>>

\* Conn.Ping: the deferred postAlways hook, called with the local variable ctx as
\* the method returns.
GoPost(p) ==
    /\ running.proc[p].st \in {"main", "failed"}
    /\ LET r == running.proc[p]
           err == IF r.st = "main" THEN NoErr ELSE ErrInvalidCtx
           out == Deferred(r.h, "Ping", r.beh, running.frame[Frame(p)], err, r.trace,
                           err, "nil")
       IN running' = [running EXCEPT !.proc[p].st = IF r.st = "main" THEN "done"
                                                    ELSE "idle",
                                     !.proc[p].trace = out.trace]
    /\ UNCHANGED <<hooks, conn, stmt, tx, pc, last, connector>>

\* Goroutines pinging their connections, all made by one Proxy.
NextConcurrent ==
    \E p \in Procs :
        \/ GoPre(p)
        \/ GoEngine(p)
        \/ GoMain(p)
        \/ GoPost(p)

SpecConcurrent == Init /\ [][NextConcurrent]_vars

----------------------------------------------------------------------------
(* Argument checking *)

\* Argument values by type: a driver.Value, an int the default converter turns into
\* an int64, and a type it rejects.
ArgValues == {"int64", "string", "int", "chan"}
ErrConvert == [e |-> "convert", m |-> 0]

\* What an engine's CheckNamedValue does with an argument: leave it, replace it by
\* a value of its own, reject it, or ask for the default handling.
CheckerOutcomes == {"keep", "convert", "reject", "skip"}

\* The checker interfaces an engine's connection and statement may implement.
CheckerCaps == {"NamedValueChecker", "StmtNamedValueChecker"}

\* nvc.CheckNamedValue(nv) of the engine's statement ("stmt") or connection ("conn").
EngineCheck(who, o, v) ==
    [ev |-> <<EngEv(IF who = "stmt" THEN "StmtCheckNamedValue" ELSE "ConnCheckNamedValue")>>,
     value |-> IF o = "convert" THEN who ELSE v,
     err |-> CASE o = "reject" -> EngineErr [] o = "skip" -> ErrSkip [] OTHER -> NoErr]

\* defaultCheckNamedValue: driver.DefaultParameterConverter.ConvertValue
defaultCheckNamedValue(v) ==
    [ev |-> <<>>,
     value |-> IF v = "int" THEN "int64" ELSE v,
     err |-> IF v = "chan" THEN ErrConvert ELSE NoErr]

\* Mutant of StmtCheckNamedValue: the connection's checker is asked first.
StmtCheckNamedValueConnFirst(caps, v, so, co) ==
    IF "NamedValueChecker" \in caps THEN EngineCheck("conn", co, v)
    ELSE IF "StmtNamedValueChecker" \in caps THEN EngineCheck("stmt", so, v)
    ELSE defaultCheckNamedValue(v)

\* Stmt.CheckNamedValue: so and co are what the statement's and the connection's
\* checker would do with the argument.
StmtCheckNamedValue(caps, v, so, co) ==
    IF "StmtNamedValueChecker" \in caps THEN EngineCheck("stmt", so, v)
    ELSE IF "NamedValueChecker" \in caps THEN EngineCheck("conn", co, v)
    ELSE defaultCheckNamedValue(v)

\* Conn.CheckNamedValue
ConnCheckNamedValue(caps, v, co) ==
    IF "NamedValueChecker" \in caps THEN EngineCheck("conn", co, v)
    ELSE defaultCheckNamedValue(v)

\* The record of a CheckNamedValue call: the argument, the checkers' dispositions,
\* the invocations, the error and the argument as the call left it.
CheckCall(op, caps, v, so, co, out) ==
    [op |-> op, h |-> NilHooks, beh |-> <<>>, c |-> Background, eng |-> NoErr,
     caps |-> caps, named |-> TRUE, opts |-> DefaultOpts,
     trace |-> out.ev, ret |-> out.err, res |-> out.value, post |-> NoErr,
     arg |-> v, so |-> so, co |-> co]

\* A connection and a statement prepared on it, on an engine whose connection and
\* statement each implement the checker interface or not.
InitChecker ==
    /\ hooks \in HooksValues
    /\ conn \in {[st |-> "open", caps |-> caps, opener |-> hooks] :
                   caps \in SUBSET CheckerCaps}
    /\ stmt = "open"
    /\ tx = [st |-> "none", amb |-> NoAmbient]
    /\ pc = "idle"
    /\ last = NoCall
    /\ connector = "none"
    /\ running = NoneRunning

\* stmt.CheckNamedValue(nv)
CheckStmt ==
    /\ pc = "idle"
    /\ stmt = "open"
    /\ \E v \in ArgValues, so \in CheckerOutcomes, co \in CheckerOutcomes :
         last' = CheckCall("StmtCheckNamedValue", conn.caps, v, so, co,
                           StmtCheckNamedValue(conn.caps, v, so, co))
    /\ pc' = "returned"
    /\ UNCHANGED <<hooks, conn, stmt, tx, connector, running>>

\* conn.CheckNamedValue(nv)
CheckConn ==
    /\ pc = "idle"
    /\ conn.st = "open"
    /\ \E v \in ArgValues, so \in CheckerOutcomes, co \in CheckerOutcomes :
         last' = CheckCall("ConnCheckNamedValue", conn.caps, v, so, co,
                           ConnCheckNamedValue(conn.caps, v, co))
    /\ pc' = "returned"
    /\ UNCHANGED <<hooks, conn, stmt, tx, connector, running>>

\* The client's dispatcher checking the arguments of a statement.
NextChecker ==
    \/ CheckStmt
    \/ CheckConn
    \/ Return

SpecChecker == InitChecker /\ [][NextChecker]_vars

----------------------------------------------------------------------------
(* Validity *)

\* The bool handed to postIsValid, as a value of the error argument of the dispatch.
Valid(b) == [e |-> IF b THEN "valid" ELSE "invalid", m |-> 0]

\* hooks.preIsValid(conn), hooks.isValid(ctx, conn) and hooks.postIsValid(ctx, conn,
\* valid): dispatched like the hooks of every other kind.
preIsValid(h, beh) == hooksPre(h, "IsValid", beh)
isValid(h, beh, ctx) == hooksMain(h, "IsValid", beh, ctx)
postIsValid(h, beh, ctx, valid) == hooksPost(h, "IsValid", beh, ctx, Valid(valid))

\* The deferred postIsValid call of Conn.IsValid.
DeferredValid(h, beh, ctx, ev, valid) ==
    LET post == IF h # NilHooks THEN postIsValid(h, beh, ctx, valid)
                ELSE [err |-> NoErr, ev |-> <<>>]
    IN [trace |-> ev \o post.ev, ret |-> NoErr,
        res |-> IF valid THEN "true" ELSE "false", post |-> post.err]

\* Mutant of ConnIsValid: the hooks are told but their errors are dropped.
ConnIsValidHooksIgnored(h, beh, caps, engValid) ==
    LET pre == IF h # NilHooks THEN preIsValid(h, beh)
               ELSE [ctx |-> NilCtx, err |-> NoErr, ev |-> <<>>]
        called == "Validator" \in caps
        v == IF called THEN engValid ELSE TRUE
        ev == pre.ev \o (IF called THEN <<EngEv("IsValid")>> ELSE <<>>)
    IN IF v /\ h # NilHooks
       THEN DeferredValid(h, beh, pre.ctx, ev \o isValid(h, beh, pre.ctx).ev, TRUE)
       ELSE DeferredValid(h, beh, pre.ctx, ev, v)

\* Conn.IsValid: the method's invocations and the bool it returns (res).
ConnIsValid(h, beh, caps, engValid) ==
    LET pre == IF h # NilHooks THEN preIsValid(h, beh)
               ELSE [ctx |-> NilCtx, err |-> NoErr, ev |-> <<>>]
    IN IF pre.err # NoErr
       THEN DeferredValid(h, beh, pre.ctx, pre.ev, FALSE)
       ELSE LET called == "Validator" \in caps
                v == IF called THEN engValid ELSE TRUE
                ev == pre.ev \o (IF called THEN <<EngEv("IsValid")>> ELSE <<>>)
            IN IF v /\ h # NilHooks
               THEN LET main == isValid(h, beh, pre.ctx)
                    IN DeferredValid(h, beh, pre.ctx, ev \o main.ev, main.err = NoErr)
               ELSE DeferredValid(h, beh, pre.ctx, ev, v)

\* conn.IsValid(): the chain is that of the Proxy, there is no context to carry one.
IsValid ==
    /\ pc = "idle"
    /\ conn.st = "open"
    /\ \E beh \in Behaviours(hooks), engValid \in BOOLEAN :
         last' = Call("IsValid", hooks, beh, Background,
                      IF engValid THEN NoErr ELSE EngineErr, conn.caps,
                      ConnIsValid(hooks, beh, conn.caps, engValid))
    /\ pc' = "returned"
    /\ UNCHANGED <<hooks, conn, stmt, tx, connector, running>>

\* The client's connection pool: it opens connections, asks whether they are still
\* valid, and closes them.
NextValid ==
    \/ Open
    \/ IsValid
    \/ Ping
    \/ Close
    \/ Return

SpecValid == Init /\ [][NextValid]_vars

----------------------------------------------------------------------------
(* The client's dispatcher on the Proxy: db.Exec and db.Query *)

\* The callbacks' behaviours that decide which way a client call goes: whether the
\* pre and the main callbacks return an error.
ClientBehaviours(h) ==
    {[m \in 1..h.n |-> HookSet(h.nils[m], [ctx |-> TRUE, pre |-> f[m][1], main |-> f[m][2],
                                           post |-> FALSE])] :
        f \in [1..h.n -> BOOLEAN \X BOOLEAN]}

\* The direct call of a client exec or query on the connection wrapper.
ClientDirect(kind, h, beh, c, caps, eng) ==
    IF kind = "Exec" THEN ConnExecContext(h, beh, c, FALSE, caps, eng)
    ELSE ConnQueryContext(h, beh, c, FALSE, caps, eng)

\* The statement call of a client exec or query that fell back to a prepared statement.
ClientStmt(kind, h, beh, c, caps, eng) ==
    IF kind = "Exec"
    THEN [StmtExec(h, beh, c, FALSE, caps, eng) EXCEPT !.trace = @ \o <<EngEv("StmtClose")>>]
    ELSE StmtQuery(h, beh, c, FALSE, caps, eng)

\* db.Exec or db.Query on a connection of the Proxy: the direct call and, if it is
\* answered with driver.ErrSkip, PrepareContext and the statement's call (an exec
\* closes the statement at once).  went tells how far the dispatcher got.
ClientCall(kind, h, beh, c, caps, eng, engPrepare, engStmt) ==
    LET d == ClientDirect(kind, h, beh, c, caps, eng)
    IN IF d.ret # ErrSkip
       THEN [trace |-> d.trace, ret |-> d.ret, res |-> d.res, post |-> d.post,
             went |-> "direct"]
       ELSE LET p == ConnPrepareContext(c, caps, engPrepare)
            IN IF p.ret # NoErr
               THEN [trace |-> d.trace \o p.trace, ret |-> p.ret, res |-> "nil",
                     post |-> d.post, went |-> "prepare"]
               ELSE LET s == ClientStmt(kind, h, beh, c, caps, engStmt)
                    IN [trace |-> d.trace \o p.trace \o s.trace, ret |-> s.ret,
                        res |-> s.res, post |-> s.post, went |-> "stmt"]

\* The engine's answers the dispatcher gets to see: those of the prepare and of the
\* statement only if the direct call is answered with driver.ErrSkip.
FallbackEngs(kind, h, beh, c, caps, eng) ==
    IF ClientDirect(kind, h, beh, c, caps, eng).ret = ErrSkip
    THEN {NoErr, EngineErr} \X {NoErr, EngineErr}
    ELSE {<<NoErr, NoErr>>}

\* db.ExecContext(c, query) and db.QueryContext(c, query)
ClientExecOrQuery ==
    /\ pc = "idle"
    /\ conn.st = "open"
    /\ Free
    /\ \E kind \in {"Exec", "Query"}, amb \in Ambients, ck \in {"live", "done"} :
         LET c == [amb |-> amb, kind |-> ck]
             h == getHooks(hooks, c)
             has == (IF kind = "Exec" THEN "Execer" ELSE "Queryer") \in conn.caps
         IN \E beh \in ClientBehaviours(h), eng \in ExecEng(has) :
              \E fb \in FallbackEngs(kind, h, beh, c, conn.caps, eng) :
                 LET out == ClientCall(kind, h, beh, c, conn.caps, eng, fb[1], fb[2])
                 IN last' = [op |-> "Client" \o kind, h |-> h, beh |-> beh, c |-> c,
                             eng |-> eng, caps |-> conn.caps, named |-> FALSE,
                             opts |-> DefaultOpts, trace |-> out.trace, ret |-> out.ret,
                             res |-> out.res, post |-> out.post, went |-> out.went,
                             engStmt |-> fb[2]]
    /\ pc' = "returned"
    /\ UNCHANGED <<hooks, conn, stmt, tx, connector, running>>

\* A client that only uses the database handle.
NextClient ==
    \/ Open
    \/ ClientExecOrQuery
    \/ Ping
    \/ Close
    \/ Return

SpecClient == Init /\ [][NextClient]_vars

----------------------------------------------------------------------------
(* Hook sets with nil callbacks *)

\* The callbacks a hook set of this specification may leave nil, besides leaving
\* all of them nil.
OptionalCallbacks == {<<"pre", "Begin">>, <<"main", "Begin">>, <<"post", "Begin">>,
                      <<"main", "Open">>}
PartialNils == SUBSET OptionalCallbacks \cup {AllCallbacks}

\* NewProxyContext with no hook set, with nil ones only, or with one hook set some
\* of whose callbacks are nil, alone or behind a nil one.
PartialHooks ==
    {NilHooks, MultiHooks(0)}
        \cup {[SingleHooks EXCEPT !.nils = <<d>>] : d \in PartialNils}
        \cup {[MultiHooks(1) EXCEPT !.nils = <<d>>] : d \in PartialNils}

InitOptional ==
    /\ hooks \in PartialHooks
    /\ conn = [st |-> "none", caps |-> {}, opener |-> NilHooks]
    /\ stmt = "none"
    /\ tx = [st |-> "none", amb |-> NoAmbient]
    /\ pc = "idle"
    /\ last = NoCall
    /\ connector = "none"
    /\ running = NoneRunning

\* A client that opens connections, pings, and begins and ends transactions.
NextOptional ==
    \/ Open
    \/ Ping
    \/ BeginTx
    \/ Commit
    \/ Rollback
    \/ Close
    \/ Return

SpecOptional == InitOptional /\ [][NextOptional]_vars

----------------------------------------------------------------------------
(* Reading a call's record *)

\* The methods that dispatch to the hook chain.
HookedOps == {"Open", "Ping", "ResetSession", "Close", "Begin", "Exec", "Query",
              "StmtExec", "StmtQuery", "Commit", "Rollback"}

\* The call was answered with driver.ErrSkip because the engine connection lacks the
\* legacy direct exec or query interface: no operation was attempted.
NotSupported ==
    \/ last.op = "Exec" /\ "Execer" \notin last.caps
    \/ last.op = "Query" /\ "Queryer" \notin last.caps

\* A call of a hooked method has returned and its chain has at least one member.
Intercepted ==
    /\ pc = "returned"
    /\ last.op \in HookedOps
    /\ ~NotSupported
    /\ last.h.n >= 1

\* Positions of the invocations of one kind in the call's trace.
At(kind) == {i \in DOMAIN last.trace : last.trace[i].kind = kind}

\* Positions of the engine operation the call is about; closing a rejected
\* connection or rows and rolling back a rejected transaction are clean-up.
AtEngine ==
    {i \in At("eng") : /\ last.trace[i].op \notin {"RowsClose", "TxRollback"}
                       /\ ~(last.op = "Open" /\ last.trace[i].op = "Close")}

\* The hook invocations of the call, in order, as <<kind, member>> pairs.
HookOrder ==
    LET hk == SelectSeq(last.trace, LAMBDA e : e.kind # "eng")
    IN [i \in DOMAIN hk |-> <<hk[i].kind, hk[i].m>>]

\* The members whose pre callback fails in this call, and the first of them.
PreFailing == {m \in 1..last.h.n : last.beh[m].pre}
FirstPreFailing == CHOOSE m \in PreFailing : \A k \in PreFailing : m <= k

\* The members whose main callback would fail in this call, and the first of them.
MainFailing == {m \in 1..last.h.n : last.beh[m].main}
FirstMainFailing == CHOOSE m \in MainFailing : \A k \in MainFailing : m <= k

\* The engine operation ran and returned an error.
EngineFailed == AtEngine # {} /\ last.eng # NoErr

\* The main hook ran and returned an error.
MainFailed == At("main") # {} /\ MainFailing # {}

\* The context value the pre callback of member m returned in this call.
PreCtx(m) == IF last.beh[m].ctx THEN ValCtx(m) ELSE NilCtx

----------------------------------------------------------------------------
(* The database/sql dispatcher on the engine itself, without the Proxy *)

\* What the client's dispatcher does with the engine called directly: the engine's
\* context-aware operation if it has one, else the legacy one behind the
\* dispatcher's own bridge, else nothing; and what the caller gets.
DirectBridge(ctxOp, legacyOp, ctxAware, legacy, c, named, eng, ok) ==
    IF ctxAware THEN [trace |-> <<EngEv(ctxOp)>>, ret |-> eng,
                      res |-> IF eng = NoErr THEN ok ELSE "nil"]
    ELSE IF ~legacy THEN [trace |-> <<>>, ret |-> ErrSkip, res |-> "nil"]
    ELSE IF c.kind = "done" THEN [trace |-> <<>>, ret |-> CtxErr, res |-> "nil"]
    ELSE IF named THEN [trace |-> <<>>, ret |-> ErrNamed, res |-> "nil"]
    ELSE [trace |-> <<EngEv(legacyOp)>>, ret |-> eng,
          res |-> IF eng = NoErr THEN ok ELSE "nil"]

\* An optional engine operation: run if the engine has it, else a success.
DirectOptional(op, has, eng) ==
    IF has THEN [trace |-> <<EngEv(op)>>, ret |-> eng, res |-> "nil"]
    ELSE [trace |-> <<>>, ret |-> NoErr, res |-> "nil"]

\* The engine operation that is always there.
DirectPlain(op, eng, ok) ==
    [trace |-> <<EngEv(op)>>, ret |-> eng, res |-> IF eng = NoErr THEN ok ELSE "nil"]

\* Begin on the engine itself.
DirectBegin(c, opts, caps, eng) ==
    IF "ConnBeginTx" \in caps THEN DirectPlain("BeginTx", eng, "tx")
    ELSE IF c.kind # "background" /\ opts.iso
    THEN [trace |-> <<>>, ret |-> ErrIsolation, res |-> "nil"]
    ELSE IF c.kind # "background" /\ opts.ro
    THEN [trace |-> <<>>, ret |-> ErrReadOnly, res |-> "nil"]
    ELSE IF eng = NoErr /\ c.kind \in {"late", "done"}
    THEN [trace |-> <<EngEv("Begin"), EngEv("TxRollback")>>, ret |-> CtxErr, res |-> "nil"]
    ELSE DirectPlain("Begin", eng, "tx")

\* Prepare on the engine itself.
DirectPrepare(c, caps, eng) ==
    IF "ConnPrepareContext" \in caps THEN DirectPlain("PrepareContext", eng, "stmt")
    ELSE IF eng = NoErr /\ c.kind \in {"late", "done"}
    THEN [trace |-> <<EngEv("Prepare"), EngEv("StmtClose")>>, ret |-> CtxErr, res |-> "nil"]
    ELSE DirectPlain("Prepare", eng, "stmt")

\* The engine operations and the caller's values of the recorded call, had the
\* engine been called directly.
Direct ==
    LET r == last
    IN CASE r.op = "Open" -> DirectPlain("Open", r.eng, "conn")
         [] r.op = "Ping" -> DirectOptional("Ping", "Pinger" \in r.caps, r.eng)
         [] r.op = "ResetSession" ->
              DirectOptional("ResetSession", "SessionResetter" \in r.caps, r.eng)
         [] r.op = "Close" -> DirectPlain("Close", r.eng, "nil")
         [] r.op = "Prepare" -> DirectPrepare(r.c, r.caps, r.eng)
         [] r.op = "Begin" -> DirectBegin(r.c, r.opts, r.caps, r.eng)
         [] r.op = "Exec" ->
              DirectBridge("ExecContext", "Exec", "ExecerContext" \in r.caps,
                           "Execer" \in r.caps, r.c, r.named, r.eng, "result")
         [] r.op = "Query" ->
              DirectBridge("QueryContext", "Query", "QueryerContext" \in r.caps,
                           "Queryer" \in r.caps, r.c, r.named, r.eng, "rows")
         [] r.op = "StmtExec" ->
              DirectBridge("StmtExecContext", "StmtExec", "StmtExecContext" \in r.caps,
                           TRUE, r.c, r.named, r.eng, "result")
         [] r.op = "StmtQuery" ->
              DirectBridge("StmtQueryContext", "StmtQuery", "StmtQueryContext" \in r.caps,
                           TRUE, r.c, r.named, r.eng, "rows")
         [] r.op = "StmtClose" -> DirectPlain("StmtClose", r.eng, "nil")
         [] r.op \in {"Commit", "Rollback"} -> DirectPlain(r.op, r.eng, "nil")

----------------------------------------------------------------------------
(* Claims *)

\* C1: a Proxy constructed with an empty hook chain issues the same engine
\* operations and returns the same results and errors as the engine called directly,
\* for every engine and every call.
C1_NoOpTransparency ==
    (pc = "returned" /\ hooks = NilHooks /\ ~last.c.amb.set) =>
        /\ last.trace = Direct.trace
        /\ last.ret = Direct.ret
        /\ last.res = Direct.res

\* C2: within one intercepted call with a non-empty chain, pre runs before the
\* engine operation, the engine operation before the main hook, the main hook only
\* if the engine succeeded, and postAlways last, on every path.
C2_PhaseOrder ==
    Intercepted =>
        /\ At("pre") # {} /\ At("post") # {}
        /\ \A i \in At("pre"), j \in At("eng") \cup At("main") \cup At("post") : i < j
        /\ \A i \in AtEngine, j \in At("main") : i < j
        /\ At("main") # {} => ~EngineFailed
        /\ \A i \in DOMAIN last.trace, j \in At("post") : i \notin At("post") => i < j

\* C2 witness: a call in which pre, the engine operation, main and postAlways all ran.
C2_Witness ==
    /\ Intercepted
    /\ At("pre") # {} /\ AtEngine # {} /\ At("main") # {} /\ At("post") # {}

\* C3: with a single hook set, every intercepted call, succeeding or failing at any
\* step, invokes postAlways exactly once, with exactly the context value its own pre
\* returned (nil if pre returned nil).
C3_PostOnceWithPreCtx ==
    (Intercepted /\ last.h = SingleHooks) =>
        /\ Cardinality(At("post")) = 1
        /\ \A i \in At("post") : last.trace[i].ctx = PreCtx(1)

\* C3 witness: a failing call of a single hook set whose pre returned a value.
C3_Witness ==
    /\ Intercepted /\ last.h = SingleHooks
    /\ last.beh[1].ctx /\ last.ret # NoErr /\ At("post") # {}

\* C4: if a pre hook returns an error, neither the engine operation nor the main hook
\* is invoked, the caller receives the (first) pre error, and postAlways fires for
\* every member whose pre ran.
C4_PreRejection ==
    (Intercepted /\ PreFailing # {}) =>
        /\ At("eng") = {} /\ At("main") = {}
        /\ last.ret = PreErr(FirstPreFailing)
        /\ \A i \in At("pre") : \E j \in At("post") : last.trace[j].m = last.trace[i].m

\* C4 witness: the second member's pre rejected the call after the first had run.
C4_Witness ==
    /\ Intercepted /\ last.h = MultiHooks(2)
    /\ PreFailing = {2} /\ Cardinality(At("post")) = 2

\* C5: if the engine operation returns an error, the main hook is not invoked,
\* postAlways is handed the engine's error, and the caller receives exactly that
\* error, driver.ErrSkip included.
C5_EngineError ==
    (pc = "returned" /\ EngineFailed) =>
        /\ At("main") = {}
        /\ last.h.n >= 1 => At("post") # {}
        /\ \A j \in At("post") : last.trace[j].err = last.eng
        /\ last.ret = last.eng

\* C5 witness: a statement's engine exec returned driver.ErrSkip under a chain.
C5_Witness ==
    /\ Intercepted /\ EngineFailed
    /\ last.op = "StmtExec" /\ last.eng = ErrSkip /\ At("post") # {}

\* C6: if the engine operation succeeds but the main hook returns an error, the
\* caller receives that hook's error and, for exec and query, not the engine's result.
C6_MainHookOverrides ==
    (pc = "returned" /\ MainFailed) =>
        /\ last.ret = MainErr(FirstMainFailing)
        /\ last.op \in {"Exec", "Query", "StmtExec", "StmtQuery"} => last.res = "nil"

\* The engine closed the connection and the main close hook returned an error.
CloseHookFailed == pc = "returned" /\ last.op = "Close" /\ AtEngine # {} /\ MainFailed

\* C7 as stated: when the engine closes a connection successfully but the main close
\* hook returns an error, the caller of close receives nil.
C7_CloseHidesHookError == CloseHookFailed => last.ret = NoErr

\* C7 amended: when the engine closes a connection successfully but the main close
\* hook returns an error, the caller of close receives that hook's error, and so
\* does postAlways.
C7_CloseReturnsHookError ==
    CloseHookFailed =>
        /\ last.ret = MainErr(FirstMainFailing)
        /\ \A j \in At("post") : last.trace[j].err = MainErr(FirstMainFailing)

\* C7 witness: a close whose engine part succeeded and whose main hook failed.
C7_Witness == CloseHookFailed /\ last.eng = NoErr /\ last.ret # NoErr

\* C8: on every path of every operation postAlways is called with the error in
\* flight: the engine's error if the engine failed, the main hook's error if the
\* main hook failed, nil if both succeeded.
C8_PostGetsErrorInFlight ==
    (Intercepted /\ PreFailing = {}) =>
        /\ EngineFailed => \A j \in At("post") : last.trace[j].err = last.eng
        /\ MainFailed => \A j \in At("post") : last.trace[j].err = MainErr(FirstMainFailing)
        /\ (At("main") # {} /\ MainFailing = {}) =>
               \A j \in At("post") : last.trace[j].err = NoErr

\* A successful call through a chain of two hook sets [A, B].
SuccessAB == Intercepted /\ last.h = MultiHooks(2) /\ last.ret = NoErr /\ At("main") # {}

\* C9 as stated: for a chain [A, B] and a successful call the hook invocation order
\* is pre(A), pre(B), main(A), postAlways(B), postAlways(A).
C9_OrderWithoutMainB ==
    SuccessAB => HookOrder = <<<<"pre", 1>>, <<"pre", 2>>, <<"main", 1>>,
                               <<"post", 2>>, <<"post", 1>>>>

\* C9 amended: for a chain [A, B] and a successful call the hook invocation order is
\* pre(A), pre(B), main(A), main(B), postAlways(B), postAlways(A).
C9_OrderAB ==
    SuccessAB => HookOrder = <<<<"pre", 1>>, <<"pre", 2>>, <<"main", 1>>, <<"main", 2>>,
                               <<"post", 2>>, <<"post", 1>>>>

\* C9 witness: a successful exec on the engine through a chain of two hook sets.
C9_Witness == SuccessAB /\ last.op = "Exec" /\ AtEngine # {}

\* C10: in a multi-member chain the before-phase invokes every member's pre in
\* registration order, even after an earlier member's pre has failed, and reports
\* the first failing member's error.
C10_PreRunsAllMembers ==
    (Intercepted /\ last.h.kind = "multi") =>
        /\ SubSeq(HookOrder, 1, last.h.n) = [m \in 1..last.h.n |-> <<"pre", m>>]
        /\ Cardinality(At("pre")) = last.h.n
        /\ PreFailing # {} => last.ret = PreErr(FirstPreFailing)

\* C10 witness: both members' pre failed, both were invoked, the first one's error won.
C10_Witness ==
    /\ Intercepted /\ last.h = MultiHooks(2)
    /\ PreFailing = {1, 2} /\ Cardinality(At("pre")) = 2 /\ last.ret = PreErr(1)

\* The members of the call's hook invocations of one kind, in order.
MembersOf(kind) ==
    LET hk == SelectSeq(last.trace, LAMBDA e : e.kind = kind)
    IN [i \in DOMAIN hk |-> hk[i].m]

\* C11: in a multi-member chain the main hooks run in registration order and stop
\* at the first member whose main hook returns an error: later members' main hooks
\* are not invoked and that error is the chain's result.
C11_MainStopsAtFirstError ==
    (Intercepted /\ last.h.kind = "multi" /\ At("main") # {}) =>
        LET k == IF MainFailing # {} THEN FirstMainFailing ELSE last.h.n
        IN /\ MembersOf("main") = [m \in 1..k |-> m]
           /\ MainFailing # {} => last.ret = MainErr(FirstMainFailing)

\* C11 witness: the first member's main hook failed and the second one's never ran.
C11_Witness ==
    /\ Intercepted /\ last.h = MultiHooks(2) /\ last.beh[1].main
    /\ MembersOf("main") = <<1>> /\ last.ret = MainErr(1)

\* The members whose postAlways callback fails in this call.
PostFailing == {m \in 1..last.h.n : last.beh[m].post}

\* C12: in a multi-member chain every member's postAlways is invoked, in reverse
\* registration order, even when some member's postAlways returns an error, and the
\* error the chain reports is the first postAlways error met while walking backward.
C12_PostRunsAllBackward ==
    (Intercepted /\ last.h.kind = "multi") =>
        /\ MembersOf("post") = [i \in 1..last.h.n |-> last.h.n + 1 - i]
        /\ last.post = IF PostFailing = {} THEN NoErr
                       ELSE PostErr(CHOOSE m \in PostFailing : \A k \in PostFailing : k <= m)

\* C12 witness: both members' postAlways failed, both ran, the later member's error
\* is the one reported.
C12_Witness ==
    /\ Intercepted /\ last.h = MultiHooks(2) /\ PostFailing = {1, 2}
    /\ MembersOf("post") = <<2, 1>> /\ last.post = PostErr(2)

\* The methods that resolve their chain from the context of the call.
ContextOps == {"Ping", "ResetSession", "Begin", "Exec", "Query", "StmtExec", "StmtQuery"}

\* The hook invocations in a trace.
HookEvents(trace) == {i \in DOMAIN trace : trace[i].kind \in {"pre", "main", "post"}}

\* C13: attaching an empty ambient chain to a call's context causes zero hook
\* invocations for that call, even though the Proxy was constructed with a
\* non-empty chain.
C13_EmptyAmbientSilences ==
    (pc = "returned" /\ last.c.amb.set /\ last.c.amb.h = NilPtrHooks /\ hooks.n >= 1) =>
        HookEvents(last.trace) = {}

\* C13 witness: a Proxy with two hook sets, a ping on the engine under an empty
\* ambient chain, no hook invocation.
C13_Witness ==
    /\ pc = "returned" /\ last.op = "Ping" /\ hooks = MultiHooks(2)
    /\ last.c.amb.set /\ last.c.amb.h = NilPtrHooks
    /\ AtEngine # {} /\ HookEvents(last.trace) = {}

\* C14: when a non-empty ambient chain is attached to a call's context, the call
\* fires only the ambient chain's hooks and none of the construction-time chain's;
\* when no ambient chain is attached, the construction-time chain is used.
C14_AmbientOverrides ==
    (pc = "returned" /\ last.op \in ContextOps /\ ~NotSupported) =>
        /\ (last.c.amb.set /\ last.c.amb.h.n >= 1) =>
               /\ last.h = last.c.amb.h /\ last.h.own = "ctx"
               /\ MembersOf("pre") = [m \in 1..last.c.amb.h.n |-> m]
        /\ ~last.c.amb.set =>
               /\ last.h = hooks
               /\ MembersOf("pre") = [m \in 1..hooks.n |-> m]

\* C14 witness: a Proxy constructed with two hook sets, an exec under an ambient
\* chain of one hook set: one pre, one main, one postAlways.
C14_Witness ==
    /\ pc = "returned" /\ last.op = "Exec" /\ hooks = MultiHooks(2)
    /\ last.c.amb.set /\ last.c.amb.h = AmbientHooks /\ last.h.own = "ctx"
    /\ HookOrder = <<<<"pre", 1>>, <<"main", 1>>, <<"post", 1>>>>

\* C15: commit and rollback of a transaction dispatch to the hook chain resolved from
\* the context that was passed to begin; a transaction begun under an empty ambient
\* chain fires no commit or rollback hooks.
C15_TxUsesBeginContext ==
    [][/\ (last'.op = "Begin" /\ last'.res = "tx") => tx'.amb = last'.c.amb
       /\ (pc = "idle" /\ last'.op \in {"Commit", "Rollback"}) =>
              /\ last'.h = IF ~tx.amb.set THEN hooks
                            ELSE IF tx.amb.h = NilPtrHooks THEN NilHooks ELSE tx.amb.h
              /\ (\E i \in DOMAIN last'.trace : last'.trace[i].kind = "pre") <=> last'.h.n >= 1
              /\ (tx.amb.set /\ tx.amb.h = NilPtrHooks) => HookEvents(last'.trace) = {}
      ]_vars

\* C15 witness: a commit on the engine of a transaction begun under an empty ambient
\* chain on a Proxy with hooks, without any hook invocation.
C15_Witness ==
    /\ pc = "returned" /\ last.op = "Commit" /\ hooks.n >= 1
    /\ last.c.amb.set /\ last.c.amb.h = NilPtrHooks
    /\ AtEngine # {} /\ HookEvents(last.trace) = {}

\* The engine operations of the call's trace, by name.
EngineOps == {last.trace[i].op : i \in At("eng")}

\* C16: direct exec (or direct query) on an engine connection lacking the
\* direct-execute capability returns the reserved not-supported signal without
\* invoking the engine and without firing any hook, whatever chain is attached.
C16_NotSupportedIsSilent ==
    (/\ pc = "returned"
     /\ \/ last.op = "Exec" /\ last.caps \cap {"Execer", "ExecerContext"} = {}
        \/ last.op = "Query" /\ last.caps \cap {"Queryer", "QueryerContext"} = {}) =>
        last.ret = ErrSkip /\ last.res = "nil" /\ last.trace = <<>>

\* C16 witness: a direct exec through a chain of two hook sets on the minimum
\* connection, answered with driver.ErrSkip.
C16_Witness ==
    /\ pc = "returned" /\ last.op = "Exec" /\ last.caps = {}
    /\ last.h = MultiHooks(2) /\ last.ret = ErrSkip /\ last.trace = <<>>

\* The call took the fallback (context-unaware) path of an exec or query method.
ExecFallback ==
    \/ last.op = "Exec" /\ "Execer" \in last.caps /\ "ExecerContext" \notin last.caps
    \/ last.op = "Query" /\ "Queryer" \in last.caps /\ "QueryerContext" \notin last.caps
    \/ last.op = "StmtExec" /\ "StmtExecContext" \notin last.caps
    \/ last.op = "StmtQuery" /\ "StmtQueryContext" \notin last.caps

\* The call took the fallback path of prepare or begin.
OtherFallback ==
    \/ last.op = "Prepare" /\ "ConnPrepareContext" \notin last.caps
    \/ last.op = "Begin" /\ "ConnBeginTx" \notin last.caps

\* C17: on a fallback exec or query path, if the call's context is cancelled after
\* the engine call has returned successfully but before the wrapper returns, the
\* wrapper returns the context's cancellation error and the obtained resource is not
\* leaked (rows are closed).
C17_LateCancelOnExecQuery ==
    (/\ pc = "returned" /\ ExecFallback /\ last.c.kind = "late"
     /\ AtEngine # {} /\ last.eng = NoErr) =>
        /\ last.ret = CtxErr /\ last.res = "nil"
        /\ last.op \in {"Query", "StmtQuery"} => "RowsClose" \in EngineOps

\* C18: on a fallback begin, if the context is already done when the engine's begin
\* returns successfully, the just-opened transaction is rolled back, no transaction
\* wrapper is returned, the main begin hook is not invoked, and the caller receives
\* the context's error.
C18_LateCancelOnBegin ==
    (/\ pc = "returned" /\ last.op = "Begin" /\ "ConnBeginTx" \notin last.caps
     /\ "Begin" \in EngineOps /\ last.eng = NoErr /\ DoneAfter(last.c)) =>
        /\ "TxRollback" \in EngineOps
        /\ last.res = "nil" /\ tx.st = "none"
        /\ At("main") = {}
        /\ last.ret = CtxErr

\* C18 witness: a begin through a hook set whose context became done while the
\* engine's Begin ran.
C18_Witness ==
    /\ pc = "returned" /\ last.op = "Begin" /\ last.h.n >= 1 /\ last.c.kind = "late"
    /\ EngineOps = {"Begin", "TxRollback"} /\ last.ret = CtxErr /\ At("post") # {}

\* C19: on any fallback engine path, if the call's context is already done before
\* the engine call is made, the context's error is returned and the
\* context-unaware engine operation is not started.
C19_DoneBeforeFallback ==
    (/\ pc = "returned" /\ (ExecFallback \/ OtherFallback)
     /\ last.c.kind = "done" /\ PreFailing = {}) =>
        last.ret = CtxErr /\ At("eng") = {}

\* C20: when the engine lacks options-aware begin and the caller requests a
\* non-default isolation level or read-only, begin fails with an unsupported-option
\* error without calling the engine's begin if the context is a cancellable or
\* deadline-bearing one, and ignores the options and begins normally if the context
\* is a background-style context.
C20_LegacyBeginOptions ==
    (/\ pc = "returned" /\ last.op = "Begin" /\ "ConnBeginTx" \notin last.caps
     /\ (last.opts.iso \/ last.opts.ro) /\ PreFailing = {}) =>
        IF last.c.kind # "background"
        THEN /\ last.ret = IF last.opts.iso THEN ErrIsolation ELSE ErrReadOnly
             /\ last.res = "nil" /\ At("eng") = {} /\ At("main") = {}
        ELSE /\ EngineOps \cap {"Begin"} # {}
             /\ last.eng = NoErr =>
                    /\ "TxRollback" \in EngineOps <=> MainFailed
                    /\ last.ret = IF MainFailed THEN MainErr(FirstMainFailing) ELSE NoErr
                    /\ last.res = IF MainFailed THEN "nil" ELSE "tx"
             /\ last.eng # NoErr => last.ret = last.eng

\* C20 witness: a read-only begin on a legacy engine under a cancellable context,
\* refused without an engine call.
C20_Witness ==
    /\ pc = "returned" /\ last.op = "Begin" /\ "ConnBeginTx" \notin last.caps
    /\ last.opts.ro /\ ~last.opts.iso /\ last.c.kind = "live"
    /\ last.ret = ErrReadOnly /\ At("eng") = {}

\* C20, the other case: a read-only begin on a legacy engine under a background
\* context, begun as if no option had been given.
C20_BackgroundBegins ==
    /\ pc = "returned" /\ last.op = "Begin" /\ "ConnBeginTx" \notin last.caps
    /\ last.opts.ro /\ last.c.kind = "background"
    /\ last.ret = NoErr /\ last.res = "tx" /\ tx.st = "active"

\* The pre hooks, the engine operation and the main hooks all ran without an error.
AllSucceeded == PreFailing = {} /\ ~EngineFailed /\ At("main") # {} /\ MainFailing = {}

\* C21 as stated: a failed operation reports exactly one error to its caller, chosen
\* by the precedence pre error, then engine error, then main-hook error, then
\* postAlways error.
C21_PrecedenceWithPost ==
    Intercepted =>
        /\ PreFailing # {} => last.ret = PreErr(FirstPreFailing)
        /\ (PreFailing = {} /\ EngineFailed) => last.ret = last.eng
        /\ (PreFailing = {} /\ MainFailed) => last.ret = MainErr(FirstMainFailing)
        /\ AllSucceeded => last.ret = last.post

\* C21 amended: a failed operation reports exactly one error to its caller, chosen
\* by the precedence pre error, then engine error, then main-hook error; an error of
\* postAlways is never reported to the caller.
C21_Precedence ==
    Intercepted =>
        /\ PreFailing # {} => last.ret = PreErr(FirstPreFailing)
        /\ (PreFailing = {} /\ EngineFailed) => last.ret = last.eng
        /\ (PreFailing = {} /\ MainFailed) => last.ret = MainErr(FirstMainFailing)
        /\ AllSucceeded => last.ret = NoErr
        /\ last.ret.e # "post"

\* C21 witness: the engine failed, the main hook would fail and postAlways failed
\* too; the caller got the engine's error.
C21_Witness ==
    /\ Intercepted /\ PreFailing = {} /\ EngineFailed
    /\ MainFailing # {} /\ PostFailing # {} /\ last.post # NoErr
    /\ last.ret = last.eng

\* C22: the return value of a postAlways hook does not override what the caller
\* receives: an operation whose pre hook, engine call and main hook all succeed
\* returns success even if postAlways returns an error, and a failing operation
\* returns its original error.
C22_PostDoesNotOverride ==
    (Intercepted /\ last.post # NoErr) =>
        /\ AllSucceeded => last.ret = NoErr
        /\ last.ret # last.post

\* C22 witness: a successful exec whose postAlways returned an error.
C22_Witness ==
    /\ Intercepted /\ last.op = "Exec" /\ AllSucceeded
    /\ last.post # NoErr /\ last.ret = NoErr /\ last.res = "result"

\* The method of the recorded call run again on the same inputs with the chain h.
Replay(h) ==
    LET r == last
    IN CASE r.op = "Open" -> ProxyOpen(h, r.beh, r.eng)
         [] r.op = "Ping" -> ConnPing(h, r.beh, r.caps, r.eng)
         [] r.op = "ResetSession" -> ConnResetSession(h, r.beh, r.caps, r.eng)
         [] r.op = "Close" -> ConnClose(h, r.beh, r.eng)
         [] r.op = "Begin" -> ConnBeginTx(h, r.beh, r.c, r.opts, r.caps, r.eng)
         [] r.op = "Exec" -> ConnExecContext(h, r.beh, r.c, r.named, r.caps, r.eng)
         [] r.op = "Query" -> ConnQueryContext(h, r.beh, r.c, r.named, r.caps, r.eng)
         [] r.op = "StmtExec" -> StmtExec(h, r.beh, r.c, r.named, r.caps, r.eng)
         [] r.op = "StmtQuery" -> StmtQuery(h, r.beh, r.c, r.named, r.caps, r.eng)
         [] r.op \in {"Commit", "Rollback"} -> TxEnd(r.op, h, r.beh, r.eng)

\* Two runs of a method show the same hook invocations with the same context values
\* and errors, the same engine operations, and the same values to the caller.
SameOutcome(a, b) ==
    a.trace = b.trace /\ a.ret = b.ret /\ a.res = b.res /\ a.post = b.post

\* C25: a Proxy constructed with exactly one hook set behaves identically, for every
\* call, to one whose chain is a one-element composite of that hook set: same hook
\* invocations, same context values seen by the hooks, same results and errors.
C25_SingleIsOneElementChain ==
    (pc = "returned" /\ last.op \in HookedOps /\ last.h = SingleHooks) =>
        /\ SameOutcome(Replay(SingleHooks), last)
        /\ SameOutcome(Replay(MultiHooks(1)), last)

\* C25 witness: a successful query through one hook set whose pre returned a value.
C25_Witness ==
    /\ pc = "returned" /\ last.op = "Query" /\ last.h = SingleHooks /\ last.beh[1].ctx
    /\ last.ret = NoErr /\ HookOrder = <<<<"pre", 1>>, <<"main", 1>>, <<"post", 1>>>>

\* C26: in a chain of N hook sets, the i-th member's main and postAlways hooks
\* receive exactly the context value that the i-th member's own pre hook returned in
\* the same call, for every i.
C26_PositionalContext ==
    (Intercepted /\ last.h.kind = "multi") =>
        \A j \in At("main") \cup At("post") : last.trace[j].ctx = PreCtx(last.trace[j].m)

\* C26 witness: a chain of two whose members' pre returned different values, both
\* main hooks and both postAlways hooks having run.
C26_Witness ==
    /\ Intercepted /\ last.h = MultiHooks(2)
    /\ last.beh[1].ctx /\ ~last.beh[2].ctx
    /\ MembersOf("main") = <<1, 2>> /\ MembersOf("post") = <<2, 1>>

\* The kind of hook a method dispatches to.
HookKindOf(op) ==
    CASE op = "StmtExec" -> "Exec" [] op = "StmtQuery" -> "Query" [] OTHER -> op

\* The chain of the call is no hook set, a chain without members, or one hook set
\* with no callback.
NoOpChain ==
    \/ last.h.n = 0
    \/ last.h.kind = "single" /\ last.h.nils[1] = AllCallbacks

\* C23: a nil hook set, a nil or empty hook chain, and a hook set whose callbacks are
\* all nil are each a legal no-op at every dispatch point: every pre returns a nil
\* context and no error, every main and postAlways returns no error, and nothing
\* crashes.
C23_NilIsNoOp ==
    (pc = "returned" /\ last.op \in HookedOps /\ NoOpChain) =>
        LET k == HookKindOf(last.op)
        IN /\ HookEvents(last.trace) = {}
           /\ last.ret.e # "panic" /\ last.post = NoErr
           /\ SameOutcome(Replay(NilHooks), last)
           /\ last.h # NilHooks =>
                  /\ hooksPre(last.h, k, last.beh) = [ctx |-> NilCtx, err |-> NoErr, ev |-> <<>>]
                  /\ hooksMain(last.h, k, last.beh, NilCtx) = [err |-> NoErr, ev |-> <<>>]
                  /\ hooksPost(last.h, k, last.beh, NilCtx, last.ret) =
                         [err |-> NoErr, ev |-> <<>>]

\* C23 witness: a transaction begun on the engine through a hook set whose callbacks
\* are all nil.
C23_Witness ==
    /\ pc = "returned" /\ last.op = "Begin" /\ last.h.kind = "single"
    /\ last.h.nils[1] = AllCallbacks
    /\ last.ret = NoErr /\ tx.st = "active" /\ last.trace = <<EngEv("BeginTx")>>

\* C23 witness of the other cases: a ping under the typed nil hook set of
\* WithHooks(ctx), and one through a chain without members.
C23_NilCases ==
    /\ pc = "returned" /\ last.op = "Ping" /\ last.ret = NoErr
    /\ \/ last.c.amb.h = NilPtrHooks /\ hooks.n = 1
       \/ last.h = MultiHooks(0)

\* C24: every callback of a hook set is independently optional: each operation
\* invokes exactly those of its own pre, main and postAlways callbacks that are
\* defined, whatever callbacks of other kinds are defined or absent, and never crashes.
C24_CallbacksIndependent ==
    (pc = "returned" /\ last.op \in HookedOps /\ last.h.n = 1) =>
        LET k == HookKindOf(last.op)
            nils == last.h.nils[1]
            preFailed == <<"pre", k>> \notin nils /\ last.beh[1].pre
            mainReached == ~preFailed /\ Replay(NilHooks).ret = NoErr
        IN /\ last.ret.e # "panic"
           /\ At("pre") # {} <=> <<"pre", k>> \notin nils
           /\ At("post") # {} <=> <<"post", k>> \notin nils
           /\ At("main") # {} <=> (mainReached /\ <<"main", k>> \notin nils)

\* The invocations of one callback of member m in the call.
Fired(kind, m) == {i \in At(kind) : last.trace[i].m = m}

\* C27: each successful connect through a proxied Connector fires the open pre,
\* main and postAlways hooks exactly once each, whether the engine supplies its own
\* connector or the Proxy falls back to the engine's name-based open.
C27_ConnectFiresOnce ==
    (pc = "returned" /\ last.op = "Connect" /\ last.ret = NoErr) =>
        /\ \A m \in 1..last.h.n, kind \in {"pre", "main", "post"} :
               Cardinality(Fired(kind, m)) = 1
        /\ \A i \in HookEvents(last.trace) : last.trace[i].op = "Open"
        /\ Cardinality(At("eng")) = 1
        /\ EngineOps = {IF connector = "engine" THEN "Connect" ELSE "Open"}
        /\ last.res = "conn" /\ conn.st = "open"

\* C27 witness: a successful connect by the engine's name-based open under a chain
\* of two hook sets.
C27_Witness ==
    /\ pc = "returned" /\ last.op = "Connect" /\ last.ret = NoErr
    /\ connector = "fallback" /\ last.h = MultiHooks(2)
    /\ Len(last.trace) = 7

\* C27 witness of the other case: a successful connect by the engine's own connector.
C27_EngineConnector ==
    /\ pc = "returned" /\ last.op = "Connect" /\ last.ret = NoErr
    /\ connector = "engine" /\ last.h.n >= 1
    /\ EngineOps = {"Connect"}

\* C28: if the main open hook fails after the engine has produced a connection, in
\* Connector.Connect or in Proxy.Open, the engine connection is closed, no wrapper
\* is returned, and the hook's error is returned.
C28_RejectedConnectionClosed ==
    (pc = "returned" /\ last.op \in {"Open", "Connect"} /\ MainFailed) =>
        LET eng == SelectSeq(last.trace, LAMBDA e : e.kind = "eng")
        IN /\ Len(eng) = 2 /\ eng[1].op \in {"Open", "Connect"} /\ eng[2].op = "Close"
           /\ \A i \in At("main"), j \in At("eng") :
                  last.trace[j].op = "Close" => i < j
           /\ last.res = "nil" /\ conn.st # "open"
           /\ last.ret = MainErr(FirstMainFailing)

\* C28 witness: a connect whose engine connection is rejected by the second hook
\* set's main hook.
C28_Witness ==
    /\ pc = "returned" /\ last.op = "Connect" /\ last.h = MultiHooks(2)
    /\ MainFailed /\ FirstMainFailing = 2 /\ last.ret = MainErr(2)
    /\ EngEv("Close") \in {last.trace[i] : i \in DOMAIN last.trace}

\* C28 witness of the other case: Proxy.Open rejected by the main hook.
C28_OpenRejected ==
    /\ pc = "returned" /\ last.op = "Open" /\ MainFailed /\ last.ret = MainErr(1)
    /\ EngEv("Close") \in {last.trace[i] : i \in DOMAIN last.trace}

\* The context value the pre callback of member m returned in the call of goroutine p.
OwnPreCtx(p, m) == IF running.proc[p].beh[m].ctx THEN ValCtx(m) ELSE NilCtx

\* Every main and postAlways invocation of every call in flight was handed the
\* context value that call's own pre hook returned, and no call failed.
C29_OwnContext ==
    \A p \in Procs :
        LET r == running.proc[p]
            at(kind) == {i \in DOMAIN r.trace : r.trace[i].kind = kind}
        IN /\ r.st # "failed"
           /\ \A i \in at("main") \cup at("post") :
                  r.trace[i].ctx = OwnPreCtx(p, r.trace[i].m)
           /\ r.st \in {"main", "done"} => Cardinality(at("main")) = r.h.n
           /\ r.st = "done" => Cardinality(at("post")) = r.h.n

\* C29: when operations run concurrently on connections of one Proxy, no operation
\* modifies the Proxy or its chain, and each operation's main and postAlways hooks
\* receive the context values produced by that same operation's pre hooks.
C29_ConcurrentCallsIsolated ==
    [](C29_OwnContext) /\ [][hooks' = hooks]_vars

\* C29 witness: two calls in flight at once whose pre hooks returned different
\* context values, one of them past its main hook.
C29_Witness ==
    /\ running.proc[1].st = "main" /\ running.proc[2].st = "pre"
    /\ running.proc[1].h.n = 2 /\ running.proc[2].h.n = 2
    /\ running.frame[1] # running.frame[2]

\* C30: Stmt.CheckNamedValue delegates to the engine statement's checker if it has
\* one, else to the engine connection's checker if it has one, else to the default
\* converter; the connection's checker is never consulted when the statement has
\* its own.
C30_CheckerPrecedence ==
    (pc = "returned" /\ last.op = "StmtCheckNamedValue") =>
        LET stmtEv == EngEv("StmtCheckNamedValue")
            connEv == EngEv("ConnCheckNamedValue")
            answer(o) == [value |-> IF o = "convert" THEN "engine" ELSE last.arg,
                          failed |-> o \in {"reject", "skip"}]
            got == [value |-> IF last.res \in {"stmt", "conn"} THEN "engine" ELSE last.res,
                    failed |-> last.ret # NoErr]
        IN IF "StmtNamedValueChecker" \in last.caps
           THEN last.trace = <<stmtEv>> /\ got = answer(last.so)
           ELSE IF "NamedValueChecker" \in last.caps
           THEN last.trace = <<connEv>> /\ got = answer(last.co)
           ELSE /\ last.trace = <<>>
                /\ last.ret = IF last.arg = "chan" THEN ErrConvert ELSE NoErr
                /\ last.res = IF last.arg = "int" THEN "int64" ELSE last.arg

\* C30 witness: the statement and the connection both have a checker, they would
\* treat the argument differently, and the statement's checker has answered.
C30_Witness ==
    /\ pc = "returned" /\ last.op = "StmtCheckNamedValue"
    /\ last.caps = CheckerCaps
    /\ last.so = "convert" /\ last.co = "reject"
    /\ last.ret = NoErr /\ last.res = "stmt"

\* C30 witness of the second case: only the connection has a checker.
C30_ConnectionChecker ==
    /\ pc = "returned" /\ last.op = "StmtCheckNamedValue"
    /\ last.caps = {"NamedValueChecker"}
    /\ last.trace = <<EngEv("ConnCheckNamedValue")>> /\ last.ret = EngineErr

\* C31: preparing a statement fires no hooks of any chain member; hooks fire only
\* when the prepared statement is later executed or queried.
C31_PrepareFiresNoHook ==
    /\ (pc = "returned" /\ last.op = "Prepare") =>
           /\ HookEvents(last.trace) = {}
           /\ \A i \in DOMAIN last.trace :
                  last.trace[i].op \in {"PrepareContext", "Prepare", "StmtClose"}
    /\ (pc = "returned" /\ last.op \in {"StmtExec", "StmtQuery"}) =>
           \A m \in 1..last.h.n : Fired("pre", m) # {} /\ Fired("post", m) # {}

\* C31 witness: a statement prepared on a Proxy with two hook sets under a context
\* carrying an ambient hook set.
C31_Witness ==
    /\ pc = "returned" /\ last.op = "Prepare" /\ last.ret = NoErr /\ stmt = "open"
    /\ hooks = MultiHooks(2) /\ last.c.amb.h = AmbientHooks

\* C31 witness of the later execution: the prepared statement executed, with hooks.
C31_ExecutedLater ==
    /\ pc = "returned" /\ last.op = "StmtExec" /\ last.h = MultiHooks(2)
    /\ Cardinality(At("pre")) = 2

C32_PlainValid ==
    /\ pc = "returned" /\ last.op = "IsValid" /\ "Validator" \notin last.caps
    /\ last.h = NilHooks /\ last.res = "true" /\ last.trace = <<>>

\* The errors the wrapper itself makes up after the pre hook has run.
WrapperErrors == {CtxErr, ErrNamed, ErrIsolation, ErrReadOnly}

\* C33: when the wrapper itself fails a call after the pre hook has run (context
\* already cancelled on a fallback path, named parameters on a fallback path, or an
\* unsupported transaction option), postAlways is called with the same error that
\* the caller receives.
C33_PostGetsWrapperError ==
    (/\ pc = "returned" /\ last.op \in HookedOps /\ last.h.n >= 1
     /\ At("pre") # {} /\ AtEngine = {} /\ last.ret \in WrapperErrors) =>
        /\ At("post") # {}
        /\ \A i \in At("post") : last.trace[i].err = last.ret

\* C34: in a multi-member chain, every member's postAlways receives the operation's
\* own error (the engine's or main hook's error, or nil on success), never an error
\* returned by another member's postAlways.
C34_PostErrorsStayApart ==
    (pc = "returned" /\ last.op \in HookedOps /\ last.h.kind = "multi" /\ last.h.n >= 2) =>
        /\ \A i \in At("post") : last.trace[i].err \notin {PostErr(m) : m \in 1..last.h.n}
        /\ \A i, j \in At("post") : last.trace[i].err = last.trace[j].err

\* C35: whenever the main query hook fails after the engine returned rows, those
\* rows are closed before the error is returned, on both the connection-level and
\* the statement-level query path.
C35_RejectedRowsClosed ==
    (pc = "returned" /\ last.op \in {"Query", "StmtQuery"} /\ MainFailed) =>
        /\ last.res = "nil" /\ last.ret = MainErr(FirstMainFailing)
        /\ \E j \in At("eng") :
               /\ last.trace[j].op = "RowsClose"
               /\ \A i \in At("main") : i < j

\* The connection-level path does close the rows.
C35_ConnLevelClosed ==
    (pc = "returned" /\ last.op = "Query" /\ MainFailed) =>
        \E j \in At("eng") : last.trace[j].op = "RowsClose"

\* C36: if the main begin hook fails after the engine opened a transaction, the
\* engine transaction is rolled back exactly once, no transaction wrapper is
\* returned, and no commit or rollback hooks fire for that internal rollback.
C36_RejectedTxRolledBack ==
    (pc = "returned" /\ last.op = "Begin" /\ MainFailed) =>
        LET rb == {j \in At("eng") : last.trace[j].op = "TxRollback"}
        IN /\ Cardinality(rb) = 1
           /\ \A j \in rb, i \in At("main") : i < j
           /\ \A i \in HookEvents(last.trace) : last.trace[i].op = "Begin"
           /\ last.res = "nil" /\ tx.st = "none"
           /\ last.ret = MainErr(FirstMainFailing)

\* C36 witness: a transaction begun by the engine and rejected by the main begin
\* hook of the second hook set.
C36_Witness ==
    /\ pc = "returned" /\ last.op = "Begin" /\ last.h = MultiHooks(2)
    /\ MainFailed /\ FirstMainFailing = 2 /\ last.ret = MainErr(2)
    /\ EngEv("TxRollback") \in {last.trace[i] : i \in DOMAIN last.trace}

\* C37: closing a connection wrapper always closes the underlying engine connection
\* exactly once, whatever the close hooks return.
C37_CloseAlwaysClosesEngine ==
    (pc = "returned" /\ last.op = "Close") =>
        Cardinality({j \in At("eng") : last.trace[j].op = "Close"}) = 1

\* Without a failing pre close hook the engine connection is closed exactly once.
C37_ClosedUnlessPreFails ==
    (pc = "returned" /\ last.op = "Close" /\ PreFailing = {}) =>
        Cardinality({j \in At("eng") : last.trace[j].op = "Close"}) = 1

\* C38: one client-level exec or query fires each chain member's pre and postAlways
\* hooks exactly once, including when direct exec is answered with the
\* not-supported signal and the client falls back to prepare-then-execute.
C38_ClientCallFiresOnce ==
    (/\ pc = "returned" /\ last.op \in {"ClientExec", "ClientQuery"}
     /\ last.went # "prepare") =>
        \A m \in 1..last.h.n :
            Cardinality(Fired("pre", m)) = 1 /\ Cardinality(Fired("post", m)) = 1

\* The hooks fire once when the wrapper itself gives the not-supported signal or
\* the direct call is not answered with it.
C38_OnceUnlessEngineSkips ==
    (/\ pc = "returned" /\ last.op \in {"ClientExec", "ClientQuery"}
     /\ last.went # "prepare"
     /\ ~(last.went = "stmt" /\ last.caps \cap {"Execer", "Queryer"} # {})) =>
        \A m \in 1..last.h.n :
            Cardinality(Fired("pre", m)) = 1 /\ Cardinality(Fired("post", m)) = 1

\* A client exec that fell back because the wrapper gave the signal: hooks fired once.
C38_WrapperSkipped ==
    /\ pc = "returned" /\ last.op = "ClientExec" /\ last.went = "stmt"
    /\ last.caps = {} /\ last.h = MultiHooks(2) /\ Cardinality(At("pre")) = 2

\* C39: for any hook set, every close-hook invocation for a connection is preceded
\* by an open-hook invocation of that same hook set for that connection, including
\* when an ambient chain was attached to the call that opened the connection.
C39_CloseAfterOpen ==
    (pc = "returned" /\ last.op = "Close" /\ HookEvents(last.trace) # {}) =>
        /\ conn.opener = last.h
        /\ \A i \in HookEvents(last.trace) : last.trace[i].m \in 1..conn.opener.n

\* The close hooks follow open hooks of the same hook sets whenever the connection
\* was opened without an ambient chain.
C39_SameChainWithoutAmbient ==
    (/\ pc = "returned" /\ last.op = "Close" /\ HookEvents(last.trace) # {}
     /\ conn.opener.own = "proxy") =>
        conn.opener = last.h

\* C40: if the engine connection supports context-aware direct exec (or direct
\* query), the wrapper's direct exec (or query) invokes it and does not answer with
\* the not-supported signal, whether or not the engine also implements the legacy
\* context-unaware variant.
C40_ContextAwareDirectIsUsed ==
    (/\ pc = "returned"
     /\ \/ last.op = "Exec" /\ "ExecerContext" \in last.caps
        \/ last.op = "Query" /\ "QueryerContext" \in last.caps
     /\ PreFailing = {}) =>
        /\ (last.op \o "Context") \in EngineOps
        /\ last.ret = ErrSkip => last.eng = ErrSkip

\* With the legacy variant as well, the context-aware direct operation is invoked.
C40_UsedWithLegacy ==
    (/\ pc = "returned"
     /\ \/ last.op = "Exec" /\ {"Execer", "ExecerContext"} \subseteq last.caps
        \/ last.op = "Query" /\ {"Queryer", "QueryerContext"} \subseteq last.caps
     /\ PreFailing = {}) =>
        (last.op \o "Context") \in EngineOps

====
